---- MODULE Spec2Model ----
(***************************************************************************)
(* Model of the device command orchestration layer of adb-gui:             *)
(*   internal/adb  (Manager: fallback chains, output parsers, merge)       *)
(*   internal/ui   (label enrichment scheduler of the Applications tab)    *)
(*                                                                         *)
(* Go strings are modelled as sequences of one-character strings, so that  *)
(* strings.TrimSpace, strings.Contains, strings.Fields, ... are computed   *)
(* character by character as the library does.                             *)
(***************************************************************************)
EXTENDS Integers, Sequences, FiniteSets, Bags, TLC

(***************************************************************************)
(* Bounds of the model (not program constants).                            *)
(***************************************************************************)
\* number of UI events (taps, selection changes) explored by Spec
MaxEvents == 2
\* number of UI events explored by LongSpec
MaxLongEvents == 1
\* number of packages q.1, q.2, ... of the long package list of LongSpec
ManyPackages == 40
\* number of UI events (selection changes, batch taps) explored by BatchSpec
MaxBatchEvents == 3
\* number of paths of one multi-file transfer explored by TransferSpec
MaxPaths == 2
\* number of tokens after the state word of a device-table line (ParseDevicesSpec)
MaxTokens == 2
\* number of fields of a long-format listing line (LongLineSpec)
MaxFields == 6
\* number of UI events and ticks (refreshes, settings saves) explored by PanelSpec
MaxPanelEvents == 3
\* number of UI events (type changes, refreshes) explored by TypeSpec
MaxTypeEvents == 2

(***************************************************************************)
(* Go standard library: package strings / strconv.                         *)
(***************************************************************************)
SetMin(S) == CHOOSE m \in S : \A n \in S : m <= n
SetMax(S) == CHOOSE m \in S : \A n \in S : m >= n

\* unicode.IsSpace restricted to the ASCII white space the tools emit
IsSpace(c) == c \in {" ", "\t", "\n", "\r"}

IsDigit(c) == c \in {"0", "1", "2", "3", "4", "5", "6", "7", "8", "9"}

TrimSpace(s) ==
    LET keep == {i \in 1..Len(s) : ~IsSpace(s[i])}
    IN  IF keep = {} THEN <<>> ELSE SubSeq(s, SetMin(keep), SetMax(keep))

HasPrefix(s, p) == Len(s) >= Len(p) /\ SubSeq(s, 1, Len(p)) = p

HasSuffix(s, p) == Len(s) >= Len(p) /\ SubSeq(s, Len(s) - Len(p) + 1, Len(s)) = p

TrimPrefix(s, p) == IF HasPrefix(s, p) THEN SubSeq(s, Len(p) + 1, Len(s)) ELSE s

TrimSuffix(s, p) == IF HasSuffix(s, p) THEN SubSeq(s, 1, Len(s) - Len(p)) ELSE s

\* strings.Index: 0-based index of the first occurrence, -1 when absent
Index(s, sub) ==
    LET at == {i \in 1..(Len(s) - Len(sub) + 1) : SubSeq(s, i, i + Len(sub) - 1) = sub}
    IN  IF at = {} THEN -1 ELSE SetMin(at) - 1

\* strings.LastIndex: 0-based index of the last occurrence, -1 when absent
LastIndex(s, sub) ==
    LET at == {i \in 1..(Len(s) - Len(sub) + 1) : SubSeq(s, i, i + Len(sub) - 1) = sub}
    IN  IF at = {} THEN -1 ELSE SetMax(at) - 1

Contains(s, sub) == Index(s, sub) >= 0

\* strings.Split(s, "\n")
RECURSIVE SplitLines(_)
SplitLines(s) ==
    LET p == Index(s, <<"\n">>)
    IN  IF p < 0 THEN <<s>>
        ELSE <<SubSeq(s, 1, p)>> \o SplitLines(SubSeq(s, p + 2, Len(s)))

\* strings.Fields
RECURSIVE Fields(_)
Fields(s) ==
    LET start == {i \in 1..Len(s) : ~IsSpace(s[i])}
    IN  IF start = {} THEN <<>>
        ELSE LET b == SetMin(start)
                 stop == {i \in b..Len(s) : IsSpace(s[i])}
                 e == IF stop = {} THEN Len(s) ELSE SetMin(stop) - 1
             IN  <<SubSeq(s, b, e)>> \o Fields(SubSeq(s, e + 1, Len(s)))

\* strings.Join(a, "\n")
RECURSIVE JoinLines(_)
JoinLines(a) ==
    IF Len(a) = 0 THEN <<>>
    ELSE IF Len(a) = 1 THEN a[1]
    ELSE a[1] \o <<"\n">> \o JoinLines(Tail(a))

LowerOf ==
    [c \in {"A","B","C","D","E","F","G","H","I","J","K","L","M",
            "N","O","P","Q","R","S","T","U","V","W","X","Y","Z"} |->
        CASE c = "A" -> "a" [] c = "B" -> "b" [] c = "C" -> "c" [] c = "D" -> "d"
          [] c = "E" -> "e" [] c = "F" -> "f" [] c = "G" -> "g" [] c = "H" -> "h"
          [] c = "I" -> "i" [] c = "J" -> "j" [] c = "K" -> "k" [] c = "L" -> "l"
          [] c = "M" -> "m" [] c = "N" -> "n" [] c = "O" -> "o" [] c = "P" -> "p"
          [] c = "Q" -> "q" [] c = "R" -> "r" [] c = "S" -> "s" [] c = "T" -> "t"
          [] c = "U" -> "u" [] c = "V" -> "v" [] c = "W" -> "w" [] c = "X" -> "x"
          [] c = "Y" -> "y" [] c = "Z" -> "z"]

ToLower(s) == [i \in 1..Len(s) |-> IF s[i] \in DOMAIN LowerOf THEN LowerOf[s[i]] ELSE s[i]]

IsLetter(c) == c \in DOMAIN LowerOf \/ c \in {LowerOf[u] : u \in DOMAIN LowerOf}

DigitVal ==
    [c \in {"0","1","2","3","4","5","6","7","8","9"} |->
        CASE c = "0" -> 0 [] c = "1" -> 1 [] c = "2" -> 2 [] c = "3" -> 3
          [] c = "4" -> 4 [] c = "5" -> 5 [] c = "6" -> 6 [] c = "7" -> 7
          [] c = "8" -> 8 [] c = "9" -> 9]

RECURSIVE DecimalValue(_)
DecimalValue(s) ==
    IF Len(s) = 0 THEN 0
    ELSE 10 * DecimalValue(SubSeq(s, 1, Len(s) - 1)) + DigitVal[s[Len(s)]]

(***************************************************************************)
(* error values: nil, or an error with its text.  src is the ordinal of    *)
(* the process launch that produced it (every launch returns its own error *)
(* object), 0 for errors made by errors.New.                               *)
(***************************************************************************)
Nil == [isNil |-> TRUE, msg |-> <<>>, src |-> 0]

Error(text, n) == [isNil |-> FALSE, msg |-> text, src |-> n]

(***************************************************************************)
(* State.                                                                  *)
(***************************************************************************)
VARIABLES
    \* ---- internal/ui buildApplicationsTab (ui.go 290-298) ----
    selectedSerial,     \* selectedSerialBind
    pkgs,               \* var pkgs []string
    labels,             \* labels map[string]string
    labelFetchRunning,  \* labelFetchRunning bool
    fetchGen,           \* fetchGen int
    loads,              \* goroutines of refreshUsers / refreshPackages in flight (a bag)
    runs,               \* goroutines started by startLabelFetch
    uiQueue,            \* closures handed to fyne.Do, not yet run
    events,             \* number of UI events handled so far
    requests,           \* history: number of calls of startLabelFetch so far
    \* ---- internal/adb: one call of a Manager operation ----
    env,                \* what the call meets: arguments, tool availability and the
                        \* answers of the device to the successive command variants
    op,                 \* the operation that was called ("none" before the call)
    calls,              \* the process launches of the call, in order
    ret,                \* the values returned to the caller
    disk,               \* local storage: the directories and the files (path -> bytes)
    \* ---- internal/ui buildApplicationsTab: batch actions (ui.go 720-812) ----
    selectedPkgs,       \* selectedPkgs map[string]bool, as the set of keys set to true
    batches,            \* goroutines started by doBatch
    dialogs,            \* the dialogs shown so far, in order
    \* ---- internal/ui BuildUI, buildDevicesPanel, openSettingsDialog ----
    devices,            \* var devices []adb.Device
    started,            \* history: number of device refreshes started so far
    mgrPath,            \* mgr.Path
    cfg,                \* *config.Config: ADBPath and ThemeMode
    appType             \* appTypeSelect.Selected

uiVars == <<selectedSerial, pkgs, labels, labelFetchRunning, fetchGen, loads, runs,
            uiQueue, events, requests>>

adbVars == <<env, op, calls, ret, disk>>

batchVars == <<selectedPkgs, batches, dialogs>>

panelVars == <<devices, started, mgrPath, cfg, appType>>

vars == <<uiVars, adbVars, batchVars, panelVars>>

(***************************************************************************)
(* Applications tab: package refresh and label enrichment (ui.go 541-715). *)
(***************************************************************************)
\* the fixed maximum of label extractions of one run
maxCount == 40

Serial1 == <<"S","1">>

\* T("select_device_to_list_packages")
InitialTip == <<"s","e","l","e","c","t">>

\* T("error") + ": " + err.Error()
ErrorEntry(err) == <<"E","r","r","o","r",":"," ">> \o err.msg

ExitStatus1 == <<"e","x","i","t"," ","s","t","a","t","u","s"," ","1">>

PkgAB == <<"a",".","b">>
PkgCD == <<"c",".","d">>
PkgAndroid == <<"a","n","d","r","o","i","d">>

\* results of mgr.InstalledPackagesForUserTyped seen by refreshPackages
PackageLoadResults ==
    { [plist |-> <<PkgAB, PkgCD>>, err |-> Nil],
      [plist |-> <<PkgAndroid, PkgCD>>, err |-> Nil],
      [plist |-> <<>>, err |-> Error(ExitStatus1, 1)] }

\* the packages q.1, q.2, ... of a long package list
DigitChar(d) == <<"0","1","2","3","4","5","6","7","8","9">>[d + 1]

Numbered(n) ==
    <<"q",".">> \o (IF n >= 10 THEN <<DigitChar(n \div 10)>> ELSE <<>>)
                \o <<DigitChar(n % 10)>>

\* a package without a label of its own, on a device that can drop out
UnlabelledResults(p) ==
    { [name |-> p, out |-> <<>>, err |-> Nil],
      [name |-> p,
       out |-> <<"e","r","r","o","r",":"," ","d","e","v","i","c","e"," ","u","n","a",
                 "u","t","h","o","r","i","z","e","d",".">>,
       err |-> Error(ExitStatus1, 1)],
      [name |-> p,
       out |-> <<"a","d","b",":"," ","n","o"," ","d","e","v","i","c","e","s","/","e",
                 "m","u","l","a","t","o","r","s"," ","f","o","u","n","d">>,
       err |-> Error(ExitStatus1, 1)] }

\* results (label, rawOutput, error) of mgr.AppLabel seen by the run for package p
AppLabelResults(p) ==
    IF HasPrefix(p, <<"q",".">>) THEN UnlabelledResults(p) ELSE
    { [name |-> <<"M","y"," ","A","p","p">>, out |-> <<>>, err |-> Nil],
      [name |-> <<"N","U","L","L">>, out |-> <<>>, err |-> Nil],
      [name |-> p, out |-> <<>>, err |-> Nil],
      [name |-> p, out |-> <<>>, err |-> Error(ExitStatus1, 1)],
      [name |-> p,
       out |-> <<"e","r","r","o","r",":"," ","d","e","v","i","c","e"," ",
                 "o","f","f","l","i","n","e">>,
       err |-> Error(ExitStatus1, 1)] }

\* the adb found at start-up
DetectedPath == <<"/","p","/","a","d","b">>

\* the Applications tab as built, a device being selected
\* T(key) in the language lang: the text of an option of appTypeSelect
T(lang, key) == [lang |-> lang, key |-> key]

TabInit ==
    /\ selectedSerial = Serial1
    /\ pkgs = <<InitialTip>>
    /\ labels = <<>>
    /\ labelFetchRunning = FALSE
    /\ fetchGen = 0
    /\ loads = EmptyBag
    /\ runs = <<>>
    /\ uiQueue = <<>>
    /\ events = 0
    /\ requests = 0
    /\ selectedPkgs = {}
    /\ batches = <<>>
    /\ dialogs = <<>>
    /\ appType = T("en", "user_apps")

\* the devices panel and the settings, no device refresh having been started
PanelIdle ==
    /\ devices = <<>>
    /\ started = 0
    /\ mgrPath = DetectedPath
    /\ cfg = [ADBPath |-> DetectedPath, ThemeMode |-> "system"]

UiInit == TabInit /\ PanelIdle

\* local storage holding nothing the operations look at
EmptyDisk == [dirs |-> {}, files |-> <<>>]

\* no Manager operation has been called
AdbIdle ==
    /\ env = [launchable |-> TRUE]
    /\ op = "none"
    /\ calls = <<>>
    /\ ret = <<>>
    /\ disk = EmptyDisk

Init == UiInit /\ AdbIdle

RemoveAt(s, i) == SubSeq(s, 1, i - 1) \o SubSeq(s, i + 1, Len(s))

\* refreshPackages, the part run by the caller: spawn the loading goroutine
refreshPackages(l) ==
    IF TrimSpace(selectedSerial) = <<>> THEN l
    ELSE l (+) SetToBag({[kind |-> "packages", serial |-> selectedSerial, pc |-> "spawned"]})

\* refreshUsers, the part run by the caller: spawn the goroutine calling mgr.Users
refreshUsers(l) ==
    IF TrimSpace(selectedSerial) = <<>> THEN l
    ELSE l (+) SetToBag({[kind |-> "users", serial |-> selectedSerial]})

\* refreshBtn.OnTapped, while fewer than limit UI events have been handled
refreshTapped(limit) ==
    /\ events < limit
    /\ events' = events + 1
    /\ loads' = refreshPackages(refreshUsers(loads))
    /\ UNCHANGED <<selectedSerial, pkgs, labels, labelFetchRunning, fetchGen, runs, uiQueue, requests>>
    /\ UNCHANGED <<adbVars, batchVars, panelVars>>

RefreshTapped == refreshTapped(MaxEvents)

\* userSelect.OnChanged / appTypeSelect.OnChanged
selectionChanged(limit) ==
    /\ events < limit
    /\ events' = events + 1
    /\ loads' = refreshPackages(loads)
    /\ UNCHANGED <<selectedSerial, pkgs, labels, labelFetchRunning, fetchGen, runs, uiQueue, requests>>
    /\ UNCHANGED <<adbVars, batchVars, panelVars>>

SelectionChanged == selectionChanged(MaxEvents)

\* goroutine of refreshPackages: mgr.InstalledPackagesForUserTyped returns one
\* of results, the closure is handed to fyne.Do
packagesLoaded(results) ==
    \E g \in BagToSet(loads) : \E res \in results :
        /\ g.kind = "packages"
        /\ loads' = loads (-) SetToBag({g})
        /\ uiQueue' = Append(uiQueue, [kind |-> "packages", plist |-> res.plist,
                                       err |-> res.err])
        /\ UNCHANGED <<selectedSerial, pkgs, labels, labelFetchRunning, fetchGen, runs, events, requests>>
        /\ UNCHANGED <<adbVars, batchVars, panelVars>>

PackagesLoaded == packagesLoaded(PackageLoadResults)

\* goroutine of refreshUsers: mgr.Users returns, the closure is handed to fyne.Do
UsersLoaded ==
    \E g \in BagToSet(loads) :
        /\ g.kind = "users"
        /\ loads' = loads (-) SetToBag({g})
        /\ uiQueue' = Append(uiQueue, [kind |-> "users"])
        /\ UNCHANGED <<selectedSerial, pkgs, labels, labelFetchRunning, fetchGen, runs, events, requests>>
        /\ UNCHANGED <<adbVars, batchVars, panelVars>>

\* name, out, err of the loop body before mgr.AppLabel has returned
NoResult == [name |-> <<>>, out |-> <<>>, err |-> Nil]

startLabelFetch_NoGuard(newPkgs) ==
    /\ labelFetchRunning' = TRUE
    /\ runs' = Append(runs, [serial |-> selectedSerial, listSnapshot |-> newPkgs,
                             gen |-> fetchGen, i |-> 1, count |-> 0, pc |-> "loop",
                             res |-> NoResult, req |-> requests + 1])

\* startLabelFetch, the part run on the UI thread; newPkgs is pkgs as just assigned
startLabelFetch(newPkgs) ==
    IF labelFetchRunning
    THEN UNCHANGED <<labelFetchRunning, runs>>
    ELSE /\ labelFetchRunning' = TRUE
         /\ runs' = Append(runs, [serial |-> selectedSerial, listSnapshot |-> newPkgs,
                                  gen |-> fetchGen, i |-> 1, count |-> 0, pc |-> "loop",
                                  res |-> NoResult, req |-> requests + 1])

\* the listener of the Applications tab on selectedSerialBind, the selection
\* having become serial: users and packages are refreshed if the device is in
\* the list devs and not in the boot loader
serialChanged(devs, serial, l) ==
    IF \E i \in 1..Len(devs) :
          devs[i].Serial = serial /\ devs[i].State # <<"f","a","s","t","b","o","o","t">>
    THEN IF TrimSpace(serial) = <<>> THEN l
         ELSE l (+) SetToBag({[kind |-> "users", serial |-> serial]})
                (+) SetToBag({[kind |-> "packages", serial |-> serial, pc |-> "spawned"]})
    ELSE l

\* the UI thread runs the closure at the head of the fyne.Do queue
UIRun ==
    /\ uiQueue # <<>>
    /\ uiQueue' = Tail(uiQueue)
    /\ LET f == Head(uiQueue)
       IN  CASE f.kind = "packages" ->
                  /\ IF ~f.err.isNil
                     THEN /\ pkgs' = <<ErrorEntry(f.err)>>
                          /\ UNCHANGED <<labels, labelFetchRunning, runs, loads, requests>>
                     ELSE /\ pkgs' = f.plist
                          /\ labels' = <<>>
                          /\ startLabelFetch(f.plist)
                          /\ requests' = requests + 1
                          /\ UNCHANGED loads
                  /\ UNCHANGED <<dialogs, selectedSerial, devices>>
             [] f.kind = "users" ->
                  /\ loads' = refreshPackages(loads)
                  /\ UNCHANGED <<pkgs, labels, labelFetchRunning, runs, requests, dialogs>>
                  /\ UNCHANGED <<selectedSerial, devices>>
             [] f.kind = "label" ->
                  /\ labels' = [q \in DOMAIN labels \cup {f.p} |->
                                   IF q = f.p THEN f.nm ELSE labels[q]]
                  /\ UNCHANGED <<pkgs, labelFetchRunning, runs, loads, requests, dialogs>>
                  /\ UNCHANGED <<selectedSerial, devices>>
             [] f.kind = "batch" ->
                  /\ dialogs' = Append(dialogs, [title |-> f.title, message |-> f.summary])
                  /\ loads' = IF f.refreshAfter THEN refreshPackages(loads) ELSE loads
                  /\ UNCHANGED <<pkgs, labels, labelFetchRunning, runs, requests>>
                  /\ UNCHANGED <<selectedSerial, devices>>
             [] f.kind = "devices" ->
                  /\ IF ~f.err.isNil
                     THEN /\ dialogs' = Append(dialogs, [title |-> "Error",
                                                         message |-> f.err.msg])
                          /\ UNCHANGED <<devices, selectedSerial, loads>>
                     ELSE /\ devices' = f.devs
                          /\ IF selectedSerial = <<>> /\ Len(f.devs) > 0
                             THEN /\ selectedSerial' = f.devs[1].Serial
                                  /\ loads' = serialChanged(f.devs, f.devs[1].Serial, loads)
                             ELSE UNCHANGED <<selectedSerial, loads>>
                          /\ UNCHANGED dialogs
                  /\ UNCHANGED <<pkgs, labels, labelFetchRunning, runs, requests>>
    /\ UNCHANGED <<fetchGen, events>>
    /\ UNCHANGED <<adbVars, selectedPkgs, batches, started, mgrPath, cfg, appType>>

\* return of the run's goroutine: the deferred labelFetchRunning = false
RunReturn_StaysRunning(k) ==
    /\ runs' = RemoveAt(runs, k)
    /\ UNCHANGED labelFetchRunning

RunReturn(k) ==
    /\ runs' = RemoveAt(runs, k)
    /\ labelFetchRunning' = FALSE

\* head of the loop over listSnapshot: generation check and placeholder skip
RunLoop ==
    \E k \in 1..Len(runs) :
        LET r == runs[k] IN
        /\ r.pc = "loop"
        /\ IF r.i > Len(r.listSnapshot) THEN RunReturn(k)
           ELSE IF r.gen # fetchGen THEN RunReturn(k)
           ELSE IF ~Contains(r.listSnapshot[r.i], <<".">>)
                THEN /\ runs' = [runs EXCEPT ![k].i = r.i + 1]
                     /\ UNCHANGED labelFetchRunning
                ELSE /\ runs' = [runs EXCEPT ![k].pc = "AppLabel"]
                     /\ UNCHANGED labelFetchRunning
        /\ UNCHANGED <<selectedSerial, pkgs, labels, fetchGen, loads, uiQueue, events, requests>>
        /\ UNCHANGED <<adbVars, batchVars, panelVars>>

DeviceUnavailable_Never(res) == FALSE

\* the device-unavailable test on a failed extraction
DeviceUnavailable(res) ==
    LET lo == ToLower(res.out \o <<" ">> \o res.err.msg)
    IN  \/ Contains(lo, <<"o","f","f","l","i","n","e">>)
        \/ Contains(lo, <<"u","n","a","u","t","h","o","r","i","z","e","d">>)
        \/ Contains(lo, <<"n","o"," ","d","e","v","i","c","e","s">>)

\* the usable-label test
UsableLabel_AllowNull(nm, p) == nm # <<>> /\ nm # p

UsableLabel(nm, p) == nm # <<>> /\ ToLower(nm) # <<"n","u","l","l">> /\ nm # p

\* mgr.AppLabel returns: name, out, err of the loop body are assigned
RunAppLabel ==
    \E k \in 1..Len(runs) :
        LET r == runs[k]
            p == r.listSnapshot[r.i]
        IN
        /\ r.pc = "AppLabel"
        /\ \E res \in AppLabelResults(p) :
              runs' = [runs EXCEPT ![k].res = res, ![k].pc = "check"]
        /\ UNCHANGED <<selectedSerial, pkgs, labels, labelFetchRunning, fetchGen, loads,
                       uiQueue, events, requests>>
        /\ UNCHANGED <<adbVars, batchVars, panelVars>>

RunCheck_CountPastLimit ==
    \E k \in 1..Len(runs) :
        LET r == runs[k]
            p == r.listSnapshot[r.i]
            res == r.res
        IN
        /\ r.pc = "check"
        /\ IF ~res.err.isNil /\ DeviceUnavailable(res)
           THEN RunReturn(k) /\ UNCHANGED uiQueue
           ELSE LET nm == TrimSpace(res.name) IN
                /\ uiQueue' = IF UsableLabel(nm, p)
                              THEN Append(uiQueue, [kind |-> "label", p |-> p, nm |-> nm])
                              ELSE uiQueue
                /\ IF r.count + 1 > maxCount
                   THEN RunReturn(k)
                   ELSE /\ runs' = [runs EXCEPT ![k].count = r.count + 1,
                                                ![k].pc = "Sleep",
                                                ![k].res = NoResult]
                        /\ UNCHANGED labelFetchRunning
        /\ UNCHANGED <<selectedSerial, pkgs, labels, fetchGen, loads, events, requests>>
        /\ UNCHANGED <<adbVars, batchVars, panelVars>>

\* the rest of the loop body: cancel on an unavailable device, publish a usable
\* label, count, cut off at maxCount
RunCheck ==
    \E k \in 1..Len(runs) :
        LET r == runs[k]
            p == r.listSnapshot[r.i]
            res == r.res
        IN
        /\ r.pc = "check"
        /\ IF ~res.err.isNil /\ DeviceUnavailable(res)
           THEN RunReturn(k) /\ UNCHANGED uiQueue
           ELSE LET nm == TrimSpace(res.name) IN
                /\ uiQueue' = IF UsableLabel(nm, p)
                              THEN Append(uiQueue, [kind |-> "label", p |-> p, nm |-> nm])
                              ELSE uiQueue
                /\ IF r.count + 1 >= maxCount
                   THEN RunReturn(k)
                   ELSE /\ runs' = [runs EXCEPT ![k].count = r.count + 1,
                                                ![k].pc = "Sleep",
                                                ![k].res = NoResult]
                        /\ UNCHANGED labelFetchRunning
        /\ UNCHANGED <<selectedSerial, pkgs, labels, fetchGen, loads, events, requests>>
        /\ UNCHANGED <<adbVars, batchVars, panelVars>>

\* time.Sleep(200ms) is over: next entry
RunSleep ==
    \E k \in 1..Len(runs) :
        /\ runs[k].pc = "Sleep"
        /\ runs' = [runs EXCEPT ![k].i = runs[k].i + 1, ![k].pc = "loop"]
        /\ UNCHANGED <<selectedSerial, pkgs, labels, labelFetchRunning, fetchGen, loads,
                       uiQueue, events, requests>>
        /\ UNCHANGED <<adbVars, batchVars, panelVars>>

Next ==
    \/ RefreshTapped
    \/ SelectionChanged
    \/ PackagesLoaded
    \/ UsersLoaded
    \/ UIRun
    \/ RunLoop
    \/ RunAppLabel
    \/ RunCheck
    \/ RunSleep

Spec == Init /\ [][Next]_vars

(***************************************************************************)
(* The same tab on a device with more packages than one run labels.        *)
(***************************************************************************)
\* a placeholder entry: no "." in it
Placeholder == <<"x">>

\* PkgAB, a placeholder and the packages q.1 .. q.ManyPackages
LongList == <<PkgAB, Placeholder>> \o [n \in 1..ManyPackages |-> Numbered(n)]

LongPackageLoadResults ==
    { [plist |-> LongList, err |-> Nil],
      [plist |-> <<>>, err |-> Error(ExitStatus1, 1)] }

LongRefreshTapped == refreshTapped(MaxLongEvents)

LongSelectionChanged == selectionChanged(MaxLongEvents)

LongPackagesLoaded == packagesLoaded(LongPackageLoadResults)

LongNext ==
    \/ LongRefreshTapped
    \/ LongSelectionChanged
    \/ LongPackagesLoaded
    \/ UsersLoaded
    \/ UIRun
    \/ RunLoop
    \/ RunAppLabel
    \/ RunCheck
    \/ RunSleep

LongSpec == Init /\ [][LongNext]_vars

(***************************************************************************)
(* Label enrichment scheduler: claims.                                     *)
(***************************************************************************)
\* this step is the UI thread running the closure of a successful package
\* refresh, i.e. a request to start an enrichment run
StartRequest ==
    /\ uiQueue # <<>>
    /\ Head(uiQueue).kind = "packages"
    /\ Head(uiQueue).err.isNil
    /\ uiQueue' = Tail(uiQueue)

\* C1: whenever a newer run is requested while an older run is still
\* iterating, the generation counter advances, and the older run abandons at
\* its next per-entry generation check (so that it publishes no label after
\* that check).
C1_Supersession ==
    [][ /\ (StartRequest /\ runs # <<>>) => fetchGen' > fetchGen
        /\ \A k \in 1..Len(runs) :
              (runs[k].pc = "loop" /\ runs[k].req < requests /\ runs' # runs)
                 => Len(runs') < Len(runs) ]_vars

\* C2: at most one enrichment run is Running at any time, and a start request
\* issued while a run is Running starts no run and changes no scheduler state.
C2_SingleRun ==
    /\ [](Len(runs) <= 1 /\ (labelFetchRunning <=> runs # <<>>))
    /\ [][(StartRequest /\ labelFetchRunning)
             => UNCHANGED <<runs, labelFetchRunning, fetchGen>>]_vars

\* a run is Running and a later start request has been issued and ignored
C2_Witness ==
    /\ Len(runs) = 1
    /\ runs[1].req < requests
    /\ labelFetchRunning

\* the text says that the device is offline, unauthorized or not there
SaysUnavailable(text) ==
    \E w \in { <<"o","f","f","l","i","n","e">>,
                <<"u","n","a","u","t","h","o","r","i","z","e","d">>,
                <<"n","o"," ","d","e","v","i","c","e","s">> } :
        Contains(ToLower(text), w)

\* the extraction of run k has returned a failure that indicates an
\* unavailable device
FailedUnavailable(k) ==
    /\ runs[k].pc = "check"
    /\ ~runs[k].res.err.isNil
    /\ SaysUnavailable(runs[k].res.out) \/ SaysUnavailable(runs[k].res.err.msg)

\* C14: if a label extraction of a run fails and its output or error text
\* indicates offline, unauthorized or no devices, the run ends at once: no
\* label is published for that entry, no later entry is processed, and
\* nothing is reported to the tab (package list, labels and pending UI
\* closures stay as they are).
C14_UnavailableEndsRun ==
    [][ \A k \in 1..Len(runs) :
           (FailedUnavailable(k) /\ runs' # runs)
              => /\ runs' = RemoveAt(runs, k)
                 /\ uiQueue' = uiQueue
                 /\ labels' = labels
                 /\ pkgs' = pkgs ]_vars

\* an extraction in the middle of the long list has failed with a text that
\* indicates an unauthorized device
C14_Witness ==
    /\ Len(runs) = 1
    /\ FailedUnavailable(1)
    /\ SaysUnavailable(runs[1].res.out)
    /\ runs[1].i > 2
    /\ runs[1].i < Len(runs[1].listSnapshot)

\* the number of entries among the first n of a snapshot that are packages
Packages(listSnapshot, n) ==
    Cardinality({j \in 1..n : Contains(listSnapshot[j], <<".">>)})

\* C15: a run performs at most maxCount = 40 label extractions, visits its
\* snapshot in order, never has two extractions in flight, and processes no
\* entry after the limit is reached.
C15_AtMostMaxCount ==
    /\ [](\A k \in 1..Len(runs) :
             LET r == runs[k] IN
             /\ r.i >= 1
             /\ r.count < maxCount
             /\ r.count = Packages(r.listSnapshot, r.i - 1)
                             + (IF r.pc = "Sleep" THEN 1 ELSE 0)
             /\ r.pc \in {"AppLabel", "check", "Sleep"}
                   => r.i <= Len(r.listSnapshot) /\ Contains(r.listSnapshot[r.i], <<".">>))
    /\ [](Cardinality({k \in 1..Len(runs) : runs[k].pc = "AppLabel"}) <= 1)
    /\ [][ \A k \in 1..Len(runs) :
              /\ (runs' # runs /\ Len(runs') = Len(runs))
                    => /\ runs'[k].i \in {runs[k].i, runs[k].i + 1}
                       /\ runs'[k].listSnapshot = runs[k].listSnapshot
              /\ (runs[k].pc = "check" /\ runs[k].count + 1 >= maxCount /\ runs' # runs)
                    => runs' = RemoveAt(runs, k) ]_vars

\* the fortieth extraction of a run has returned and entries are left
C15_Witness ==
    /\ Len(runs) = 1
    /\ runs[1].pc = "check"
    /\ runs[1].count = maxCount - 1
    /\ ~FailedUnavailable(1)
    /\ \E j \in (runs[1].i + 1)..Len(runs[1].listSnapshot) :
          Contains(runs[1].listSnapshot[j], <<".">>)

(***************************************************************************)
(* internal/adb: process executor.                                         *)
(*                                                                         *)
(* env.launchable: the adb executable can be started.                      *)
(* env.dev[k]:     the answer of the device to the k-th command variant of *)
(*                 the operation: combined output and exit status.         *)
(***************************************************************************)
ExecNotFound ==
    <<"e","x","e","c",":"," ","\"","a","d","b","\"",":"," ","e","x","e","c","u","t",
      "a","b","l","e"," ","f","i","l","e"," ","n","o","t"," ","f","o","u","n","d">>

\* Manager.Exec / ExecSerial: the n-th launch of the call, args answered by dev[k]
Exec(e, n, k, args) ==
    IF ~e.launchable
    THEN [args |-> args, out |-> <<>>, err |-> Error(ExecNotFound, n)]
    ELSE [args |-> args, out |-> e.dev[k].out,
          err |-> IF e.dev[k].fail THEN Error(ExitStatus1, n) ELSE Nil]

\* Manager.EnsureServer: "adb start-server", output and error dropped
EnsureServer(e, n) ==
    [args |-> "start-server", out |-> <<>>,
     err |-> IF e.launchable THEN Nil ELSE Error(ExecNotFound, n)]

(***************************************************************************)
(* Manager.Users                                                           *)
(***************************************************************************)
UserInfoMarker == <<"U","s","e","r","I","n","f","o","{">>

\* length of the longest run of characters satisfying Test, starting at s[i]
RunLen(s, i, Test(_)) ==
    LET stop == {j \in i..Len(s) : ~Test(s[j])}
    IN  IF stop = {} THEN Len(s) - i + 1 ELSE SetMin(stop) - i

NameChar(c) == c \notin {":", "}"}

\* strconv.Atoi of a digit string, the error dropped: the value, or the
\* largest int on overflow (digit strings longer than 9 are outside the model)
Atoi(digits) == DecimalValue(digits)

\* the match of UserInfo\{(\d+):([^:}]+).*?\}\s*([a-zA-Z]+)? starting at ln[i],
\* as <<submatches>>, or <<>> when the pattern does not match there
UserInfoAt(ln, i) ==
    LET d0 == i + Len(UserInfoMarker)
        nd == RunLen(ln, d0, IsDigit)
        n0 == d0 + nd + 1
        nn == RunLen(ln, n0, NameChar)
        close == {j \in (n0 + nn)..Len(ln) : ln[j] = "}"}
    IN  IF /\ HasPrefix(SubSeq(ln, i, Len(ln)), UserInfoMarker)
           /\ nd >= 1
           /\ d0 + nd <= Len(ln)
           /\ ln[d0 + nd] = ":"
           /\ nn >= 1
           /\ close # {}
        THEN LET c == SetMin(close)
                 ns == RunLen(ln, c + 1, IsSpace)
                 nl == RunLen(ln, c + 1 + ns, IsLetter)
             IN  << [id |-> SubSeq(ln, d0, d0 + nd - 1),
                     name |-> SubSeq(ln, n0, n0 + nn - 1),
                     state |-> SubSeq(ln, c + 1 + ns, c + ns + nl)] >>
        ELSE <<>>

\* re.FindStringSubmatch(ln): the leftmost match
FindUserInfo(ln) ==
    LET at == {i \in 1..Len(ln) : UserInfoAt(ln, i) # <<>>}
    IN  IF at = {} THEN <<>> ELSE UserInfoAt(ln, SetMin(at))

Owner == [ID |-> 0, Name |-> <<"O","w","n","e","r">>, State |-> <<>>]

\* the loop over the lines of out
RECURSIVE parseUsers(_)
parseUsers(lines) ==
    IF lines = <<>> THEN <<>>
    ELSE LET ln == TrimSpace(Head(lines))
             mm == IF ln = <<>> THEN <<>> ELSE FindUserInfo(ln)
         IN  (IF mm = <<>> THEN <<>>
              ELSE << [ID |-> Atoi(mm[1].id), Name |-> TrimSpace(mm[1].name),
                       State |-> TrimSpace(mm[1].state)] >>)
             \o parseUsers(Tail(lines))

defaultUsers_None(users) == users

\* "default single user 0"
defaultUsers(users) == IF Len(users) = 0 THEN <<Owner>> ELSE users

Users(e) ==
    LET c0 == EnsureServer(e, 1)
        c1 == Exec(e, 2, 1, "shell cmd user list")
        fallback == ~c1.err.isNil \/ ~Contains(c1.out, UserInfoMarker)
        c2 == Exec(e, 3, 2, "shell pm list users")
        out == IF fallback THEN c2.out ELSE c1.out
    IN  [calls |-> IF fallback THEN <<c0, c1, c2>> ELSE <<c0, c1>>,
         ret |-> [users |-> defaultUsers(parseUsers(SplitLines(out))),
                  out |-> out, err |-> Nil]]

\* answers of a device to the two user-listing commands
UsersOutputs ==
    { <<>>,
      <<"U","s","e","r","s",":","\n","\t","U","s","e","r","I","n","f","o","{","0",":",
        "O","w","n","e","r",":","c","1","3","}"," ","r","u","n","n","i","n","g","\n",
        "\t","U","s","e","r","I","n","f","o","{","1","0",":","W","o","r","k",":","1",
        "0","3","0","}">>,
      <<"U","s","e","r","I","n","f","o","{","1","2",":","G","u","e","s","t",":","1",
        "4","}","\n">>,
      <<"U","s","e","r","I","n","f","o","{","a","b","c","}">>,
      <<"U","s","e","r","I","n","f","o","{","0",":","}">>,
      <<"e","r","r","o","r",":"," ","d","e","v","i","c","e"," ","o","f","f","l","i",
        "n","e">> }

UsersAnswers == [out : UsersOutputs, fail : BOOLEAN]

UsersInit ==
    /\ UiInit
    /\ env \in [launchable : BOOLEAN, dev : [1..2 -> UsersAnswers]]
    /\ op = "none"
    /\ calls = <<>>
    /\ ret = <<>>
    /\ disk = EmptyDisk

UsersCall ==
    /\ op = "none"
    /\ op' = "Users"
    /\ calls' = Users(env).calls
    /\ ret' = Users(env).ret
    /\ UNCHANGED <<env, uiVars, batchVars, disk, panelVars>>

UsersSpec == UsersInit /\ [][UsersCall]_vars

\* no line of the text holds a recognizable user record
NoUserRecord(out) ==
    \A i \in 1..Len(SplitLines(out)) : FindUserInfo(TrimSpace(SplitLines(out)[i])) = <<>>

\* C4: Users never returns an empty profile set, whatever the two listing
\* commands answer; when no line of the parsed text holds a user record the
\* result is exactly the profile (0, "Owner", "").
C4_UsersNeverEmpty ==
    op = "Users" =>
        /\ Len(ret.users) >= 1
        /\ NoUserRecord(ret.out) => ret.users = <<Owner>>

\* both commands were tried, neither gave a record, and Owner was returned
C4_Witness ==
    /\ op = "Users"
    /\ Len(calls) = 3
    /\ calls[2].out # <<>>
    /\ calls[3].out # <<>>
    /\ NoUserRecord(calls[3].out)
    /\ ret.users = <<Owner>>

\* the variants of an operation that were launched (the server start excluded)
Variants == SelectSeq(calls, LAMBDA c : c.args # "start-server")

\* C6: when the tool cannot be launched the operation returns a failure and
\* issues no command variant after the first one that failed to launch.
C6_LaunchFailureAborts ==
    (op = "Users" /\ ~env.launchable) =>
        /\ ~ret.err.isNil
        /\ Len(Variants) <= 1

(***************************************************************************)
(* Manager.ListDir                                                         *)
(***************************************************************************)
MaxInt64 == <<"9","2","2","3","3","7","2","0","3","6","8","5","4","7","7","5","8","0","7">>
MinInt64 == <<"9","2","2","3","3","7","2","0","3","6","8","5","4","7","7","5","8","0","8">>

\* digit strings of equal length: a <= b as numbers
DigitsLE(a, b) ==
    \/ a = b
    \/ \E i \in 1..Len(a) :
          /\ DigitVal[a[i]] < DigitVal[b[i]]
          /\ SubSeq(a, 1, i - 1) = SubSeq(b, 1, i - 1)

\* strconv.ParseInt(s, 10, 64) returns no error
ParseIntOK(s) ==
    LET neg == Len(s) > 0 /\ s[1] = "-"
        d == IF Len(s) > 0 /\ s[1] \in {"+", "-"} THEN Tail(s) ELSE s
        z == SubSeq(d, RunLen(d, 1, LAMBDA c : c = "0") + 1, Len(d))
    IN  /\ Len(d) > 0
        /\ \A i \in 1..Len(d) : IsDigit(d[i])
        /\ \/ Len(z) < Len(MaxInt64)
           \/ Len(z) = Len(MaxInt64) /\ DigitsLE(z, IF neg THEN MinInt64 ELSE MaxInt64)

\* its value (the model's texts keep sizes below ten digits)
ParseInt(s) ==
    IF s[1] = "-" THEN 0 - DecimalValue(Tail(s))
    ELSE IF s[1] = "+" THEN DecimalValue(Tail(s))
    ELSE DecimalValue(s)

Slash == <<"/">>
Dot == <<".">>
DotDot == <<".", ".">>

\* the unsupported-option test on the answer of "ls -lAp"
UnsupportedOption(out) ==
    \/ Contains(out, <<"U","n","k","n","o","w","n"," ","o","p","t","i","o","n">>)
    \/ Contains(out, <<"b","a","d"," ","-">>)

\* one line of the final, names-only fallback
nameOnlyEntry(ln) ==
    LET name == TrimSpace(ln)
    IN  IF name = <<>> \/ name = Dot \/ name = DotDot THEN <<>>
        ELSE << [Name |-> TrimSuffix(name, Slash), IsDir |-> HasSuffix(name, Slash),
                 Size |-> 0, Mode |-> <<>>, ModTime |-> <<>>] >>

\* one line of the "ls -l" style parse
longEntry_FirstNumeric(ln) ==
    LET line == TrimSpace(ln)
        fields == Fields(line)
        n == Len(fields)
    IN  IF line = <<>> \/ line = Dot \/ line = DotDot THEN <<>>
        ELSE IF HasPrefix(line, <<"t","o","t","a","l"," ">>) THEN <<>>
        ELSE IF n < 6
        THEN LET name == TrimSuffix(line, Slash)
             IN  IF name = <<>> \/ name = Dot \/ name = DotDot THEN <<>>
                 ELSE << [Name |-> name, IsDir |-> HasSuffix(line, Slash),
                          Size |-> 0, Mode |-> <<>>, ModTime |-> <<>>] >>
        ELSE LET mode == fields[1]
                 numeric == {i \in 2..n : ParseIntOK(fields[i])}
                 size == IF numeric = {} THEN 0 ELSE ParseInt(fields[SetMin(numeric)])
                 name == TrimSuffix(fields[n], Slash)
                 modTime == IF n >= 8 THEN fields[n - 2] \o <<" ">> \o fields[n - 1]
                            ELSE IF n >= 7 THEN fields[n - 1]
                            ELSE <<>>
             IN  IF name = <<>> \/ name = Dot \/ name = DotDot THEN <<>>
                 ELSE << [Name |-> name, IsDir |-> HasPrefix(mode, <<"d">>),
                          Size |-> size, Mode |-> mode, ModTime |-> modTime] >>

longEntry(ln) ==
    LET line == TrimSpace(ln)
        fields == Fields(line)
        n == Len(fields)
    IN  IF line = <<>> \/ line = Dot \/ line = DotDot THEN <<>>
        ELSE IF HasPrefix(line, <<"t","o","t","a","l"," ">>) THEN <<>>
        ELSE IF n < 6
        THEN LET name == TrimSuffix(line, Slash)
             IN  IF name = <<>> \/ name = Dot \/ name = DotDot THEN <<>>
                 ELSE << [Name |-> name, IsDir |-> HasSuffix(line, Slash),
                          Size |-> 0, Mode |-> <<>>, ModTime |-> <<>>] >>
        ELSE LET mode == fields[1]
                 numeric == {i \in 2..n : ParseIntOK(fields[i])}
                 size == IF numeric = {} THEN 0 ELSE ParseInt(fields[SetMax(numeric)])
                 name == TrimSuffix(fields[n], Slash)
                 modTime == IF n >= 8 THEN fields[n - 2] \o <<" ">> \o fields[n - 1]
                            ELSE IF n >= 7 THEN fields[n - 1]
                            ELSE <<>>
             IN  IF name = <<>> \/ name = Dot \/ name = DotDot THEN <<>>
                 ELSE << [Name |-> name, IsDir |-> HasPrefix(mode, <<"d">>),
                          Size |-> size, Mode |-> mode, ModTime |-> modTime] >>

\* the loop over the lines of the names-only listing
RECURSIVE parseNames(_)
parseNames(lines) ==
    IF lines = <<>> THEN <<>>
    ELSE nameOnlyEntry(Head(lines)) \o parseNames(Tail(lines))

\* the loop over the lines of the long-format listing
RECURSIVE parseLong(_)
parseLong(lines) ==
    IF lines = <<>> THEN <<>>
    ELSE longEntry(Head(lines)) \o parseLong(Tail(lines))

ListDir(e) ==
    LET c1 == Exec(e, 1, 1, "shell ls -lAp")
        retry == ~c1.err.isNil \/ UnsupportedOption(c1.out)
        c2 == Exec(e, 2, 2, "shell ls -lA")
        long == IF retry THEN c2 ELSE c1
        c3 == Exec(e, 3, 3, "shell ls -1p")
    IN  IF ~long.err.isNil
        THEN [calls |-> <<c1, c2, c3>>,
              ret |-> IF ~c3.err.isNil
                      THEN [list |-> <<>>, out |-> c3.out, err |-> long.err]
                      ELSE [list |-> parseNames(SplitLines(c3.out)),
                            out |-> c3.out, err |-> Nil]]
        ELSE [calls |-> IF retry THEN <<c1, c2>> ELSE <<c1>>,
              ret |-> [list |-> parseLong(SplitLines(long.out)),
                       out |-> long.out, err |-> Nil]]

\* answers of a device to the three listing commands
ListDirOutputs ==
    { <<>>,
      <<"t","o","t","a","l"," ","8","\n","d","r","w","x","r","-","x","r","-","x"," ",
        "2"," ","r"," ","r"," ","4","0","9","6"," ","2","0","2","4","-","0","1","-",
        "0","1"," ","1","0",":","0","0"," ","d","/","\n","-","r","w","-","r","-","-",
        "r","-","-"," ","1"," ","r"," ","r"," ","1","2"," ","2","0","2","4","-","0",
        "1","-","0","1"," ","1","0",":","0","0"," ","f",".","t","x","t">>,
      <<"l","s",":"," ","U","n","k","n","o","w","n"," ","o","p","t","i","o","n"," ","p">>,
      <<"t","o","t","a","l"," ","8","\n","d","/","\n","f",".","t","x","t">>,
      <<".","/","\n",".",".","/","\n","d","/","\n","f",".","t","x","t","\n">>,
      <<"l","s",":"," ","/","x",":"," ","P","e","r","m","i","s","s","i","o","n"," ",
        "d","e","n","i","e","d">> }

ListDirAnswers == [out : ListDirOutputs, fail : BOOLEAN]

ListDirInit ==
    /\ UiInit
    /\ env \in [launchable : BOOLEAN, dev : [1..3 -> ListDirAnswers]]
    /\ op = "none"
    /\ calls = <<>>
    /\ ret = <<>>
    /\ disk = EmptyDisk

ListDirCall ==
    /\ op = "none"
    /\ op' = "ListDir"
    /\ calls' = ListDir(env).calls
    /\ ret' = ListDir(env).ret
    /\ UNCHANGED <<env, uiVars, batchVars, disk, panelVars>>

ListDirSpec == ListDirInit /\ [][ListDirCall]_vars

\* C3: the raw output and the error handed to the caller come from one and
\* the same command variant; when every candidate fails they are the last
\* tried candidate's output paired with that candidate's own error.
C3_OneVariantSurfaced ==
    op = "ListDir" =>
        /\ \E k \in 1..Len(calls) : ret.out = calls[k].out /\ ret.err = calls[k].err
        /\ (\A k \in 1..Len(calls) : ~calls[k].err.isNil) =>
              (ret.out = calls[Len(calls)].out /\ ret.err = calls[Len(calls)].err)

\* C7: a response carrying an unsupported-option marker is never surfaced by
\* ListDir, neither in the returned raw result nor as a parsed entry.
C7_MarkerNeverSurfaced ==
    op = "ListDir" =>
        /\ ~UnsupportedOption(ret.out)
        /\ \A i \in 1..Len(ret.list) : ~UnsupportedOption(ret.list[i].Name)

\* a "total N" summary line
TotalLine(line) ==
    /\ HasPrefix(line, <<"t","o","t","a","l"," ">>)
    /\ Len(line) > 6
    /\ \A i \in 7..Len(line) : IsDigit(line[i])

\* C9: a "total N" line of the parsed text never appears in the entry
\* sequence, in the long format and in the names-only fallback alike.
C9_TotalLineSkipped ==
    op = "ListDir" =>
        \A j \in 1..Len(SplitLines(ret.out)) :
            LET line == TrimSpace(SplitLines(ret.out)[j])
            IN  TotalLine(line) =>
                   \A i \in 1..Len(ret.list) : ret.list[i].Name # line

\* C23: ListDir never returns an entry named "." or "..", whatever the
\* listing text (names written "./" and "../" included), in the long format
\* and in the names-only fallback alike.
C23_NoDotEntries ==
    op = "ListDir" =>
        \A i \in 1..Len(ret.list) : ret.list[i].Name \notin {Dot, DotDot}

(***************************************************************************)
(* Manager.ListDir on one long-format line                                 *)
(*                                                                         *)
(* env.fields: the fields of the line; a field carries its text and, when  *)
(* the text is a decimal integer of 64 bits, its value.                    *)
(***************************************************************************)
ListModes == { <<"-","r","w","-","r","-","-","r","-","-">>, <<"d","r","w","x">> }

ListFields ==
    { [text |-> <<"r">>, int |-> <<>>],
      [text |-> <<"1","2">>, int |-> <<12>>],
      [text |-> <<"-","3">>, int |-> <<0 - 3>>],
      [text |-> <<"9","2","2","3","3","7","2","0","3","6","8","5","4","7","7","5","8",
                  "0","8">>, int |-> <<>>],
      [text |-> <<".","/">>, int |-> <<>>] }

\* the fields, each after a blank
RECURSIVE FieldsText(_)
FieldsText(fields) ==
    IF fields = <<>> THEN <<>>
    ELSE <<" ">> \o Head(fields).text \o FieldsText(Tail(fields))

\* the listing: a summary line and the line made of the mode and the fields
LongLine(mode, fields) ==
    <<"t","o","t","a","l"," ","8","\n">> \o mode \o FieldsText(fields) \o <<"\n">>

LongLineInit ==
    /\ UiInit
    /\ \E mode \in ListModes :
       \E fields \in UNION {[1..n -> ListFields] : n \in 5..(MaxFields - 1)} :
          env = [launchable |-> TRUE,
                 dev |-> [k \in 1..3 |-> [out |-> LongLine(mode, fields), fail |-> FALSE]],
                 mode |-> mode,
                 fields |-> fields]
    /\ op = "none"
    /\ calls = <<>>
    /\ ret = <<>>
    /\ disk = EmptyDisk

LongLineSpec == LongLineInit /\ [][ListDirCall]_vars

\* the fields after the mode whose text is a decimal integer
NumericFields == {i \in 1..Len(env.fields) : env.fields[i].int # <<>>}

\* the name field is "./": the line is the directory itself
NamesDirectoryItself == env.fields[Len(env.fields)].text = <<".","/">>

\* C25: for a long-format line with at least six fields the entry's size is
\* the value of the right-most field after the first (the name field
\* included) that parses as a decimal integer, and 0 without one; a size that
\* does not parse neither removes the entry nor fails the listing.
C25_SizeIsRightmostInteger ==
    (op = "ListDir" /\ "fields" \in DOMAIN env) =>
        /\ ret.err.isNil
        /\ Len(ret.list) = IF NamesDirectoryItself THEN 0 ELSE 1
        /\ ~NamesDirectoryItself =>
              /\ ret.list[1].Name = env.fields[Len(env.fields)].text
              /\ ret.list[1].Size =
                    IF NumericFields = {} THEN 0
                    ELSE env.fields[SetMax(NumericFields)].int[1]

\* the size comes from the name field although an earlier field is numeric too
C25_Witness ==
    /\ op = "ListDir"
    /\ "fields" \in DOMAIN env
    /\ Len(env.fields) = 5
    /\ Len(ret.list) = 1
    /\ env.fields[1].int = <<12>>
    /\ env.fields[5].int = <<0 - 3>>
    /\ ret.list[1].Size = 0 - 3
    /\ ret.list[1].Name = <<"-","3">>

(***************************************************************************)
(* Manager.InstalledPackagesForUserTyped                                   *)
(***************************************************************************)
PackageMarker == <<"p","a","c","k","a","g","e",":">>

\* the flag of the requested type: "-3", "-s" or none
TypeFlag(typ) == IF typ = "user" THEN "-3" ELSE IF typ = "system" THEN "-s" ELSE ""

CmdTyped(typ) ==
    IF typ = "user" THEN "shell cmd package list packages --user N -3"
    ELSE "shell cmd package list packages --user N -s"

PmTyped(typ) ==
    IF typ = "user" THEN "shell pm list packages --user N -3"
    ELSE "shell pm list packages --user N -s"

PmUnfiltered == "shell pm list packages --user N"

Accept_NoMarker(c) == c.err.isNil /\ TrimSpace(c.out) # <<>>

\* the test before each "goto PARSE"
Accept(c) ==
    c.err.isNil /\ Contains(c.out, PackageMarker) /\ TrimSpace(c.out) # <<>>

typedPackageLine_KeepMarker(l) ==
    LET ln == TrimSpace(l)
        eq == LastIndex(ln, <<"=">>)
    IN  IF ln = <<>> THEN <<>>
        ELSE IF eq >= 0 /\ eq + 1 < Len(ln) THEN <<SubSeq(ln, eq + 2, Len(ln))>>
        ELSE <<ln>>

\* one line of the PARSE loop
typedPackageLine(l) ==
    LET ln == TrimSpace(l)
        name == TrimPrefix(ln, PackageMarker)
        eq == LastIndex(name, <<"=">>)
    IN  IF ln = <<>> THEN <<>>
        ELSE IF eq >= 0 /\ eq + 1 < Len(name) THEN <<SubSeq(name, eq + 2, Len(name))>>
        ELSE <<name>>

RECURSIVE parseTypedPackages(_)
parseTypedPackages(lines) ==
    IF lines = <<>> THEN <<>>
    ELSE typedPackageLine(Head(lines)) \o parseTypedPackages(Tail(lines))

InstalledPackagesForUserTyped(e) ==
    LET flag == TypeFlag(e.typ)
        c0 == EnsureServer(e, 1)
        c1 == Exec(e, 2, 1, CmdTyped(e.typ))
        c2 == Exec(e, 3, 2, PmTyped(e.typ))
        c3 == Exec(e, IF flag # "" THEN 4 ELSE 2, 3, PmUnfiltered)
        log == IF flag = "" THEN <<c0, c3>>
               ELSE IF Accept(c1) THEN <<c0, c1>>
               ELSE IF Accept(c2) THEN <<c0, c1, c2>>
               ELSE <<c0, c1, c2, c3>>
        last == log[Len(log)]
    IN  [calls |-> log,
         ret |-> IF ~last.err.isNil
                 THEN [pkgs |-> <<>>, out |-> last.out, err |-> last.err]
                 ELSE [pkgs |-> parseTypedPackages(SplitLines(last.out)),
                       out |-> last.out, err |-> Nil]]

\* answers of a device to the three package-listing commands
PackagesOutputs ==
    { <<>>,
      <<"\n">>,
      <<"p","a","c","k","a","g","e",":","c","o","m",".","a","\r","\n","\r","\n",
        "p","a","c","k","a","g","e",":","c","o","m",".","b">>,
      <<"p","a","c","k","a","g","e",":","/","d","a","t","a","/","a","p","p","/","a",
        ".","a","p","k","=","c","o","m",".","a","\n","p","a","c","k","a","g","e",":",
        "c","o","m",".","b">>,
      <<"e","r","r","o","r",":"," ","d","e","v","i","c","e"," ","o","f","f","l","i",
        "n","e">> }

PackagesAnswers == [out : PackagesOutputs, fail : BOOLEAN]

PackagesInit ==
    /\ UiInit
    /\ env \in [launchable : BOOLEAN, typ : {"user", "system", ""},
                dev : [1..3 -> PackagesAnswers]]
    /\ op = "none"
    /\ calls = <<>>
    /\ ret = <<>>
    /\ disk = EmptyDisk

PackagesCall ==
    /\ op = "none"
    /\ op' = "Packages"
    /\ calls' = InstalledPackagesForUserTyped(env).calls
    /\ ret' = InstalledPackagesForUserTyped(env).ret
    /\ UNCHANGED <<env, uiVars, batchVars, disk, panelVars>>

PackagesSpec == PackagesInit /\ [][PackagesCall]_vars

\* the call was made with a precision flag
TypedCall == op = "Packages" /\ env.typ \in {"user", "system"}

\* every precision-flag call that was issued returned an empty body
PrecisionCallsEmpty ==
    \A k \in 1..Len(Variants) :
        Variants[k].args # PmUnfiltered => Variants[k].out = <<>>

\* every non-blank line of the text, trimmed, without a leading "package:"
RECURSIVE MarkerStripped(_)
MarkerStripped(lines) ==
    IF lines = <<>> THEN <<>>
    ELSE LET t == TrimSpace(Head(lines))
         IN  (IF t = <<>> THEN <<>>
              ELSE IF HasPrefix(t, PackageMarker)
              THEN <<SubSeq(t, Len(PackageMarker) + 1, Len(t))>>
              ELSE <<t>>)
             \o MarkerStripped(Tail(lines))

\* what follows the last "=" of a name, when something follows it
AfterLastEquals(name) ==
    LET at == {i \in 1..Len(name) : name[i] = "="}
    IN  IF at = {} \/ SetMax(at) = Len(name) THEN name
        ELSE SubSeq(name, SetMax(at) + 1, Len(name))

\* C5 (as claimed): if the precision-flag call returns an empty body, the
\* unfiltered call's raw text is returned verbatim and the package list is
\* every non-blank line of that text with a leading "package:" stripped.
C5_EmptyBodyFallsBack ==
    (TypedCall /\ PrecisionCallsEmpty) =>
        /\ Variants[Len(Variants)].args = PmUnfiltered
        /\ ret.out = Variants[Len(Variants)].out
        /\ ret.pkgs = MarkerStripped(SplitLines(ret.out))

\* C5 (amended): if the precision-flag calls return an empty body, the
\* unfiltered call's raw text is returned verbatim together with that call's
\* error; if the call failed the package list is empty, otherwise it is every
\* non-blank line of the text, trimmed, with a leading "package:" stripped
\* and then cut down to what follows its last "=" when something follows it.
C5_EmptyBodyFallsBackAmended ==
    (TypedCall /\ PrecisionCallsEmpty) =>
        LET u == Variants[Len(Variants)]
            names == MarkerStripped(SplitLines(u.out))
        IN  /\ u.args = PmUnfiltered
            /\ ret.out = u.out
            /\ ret.err = u.err
            /\ ret.pkgs = IF u.err.isNil
                          THEN [i \in 1..Len(names) |-> AfterLastEquals(names[i])]
                          ELSE <<>>

\* both precision-flag calls answered with an empty body and the unfiltered
\* listing, holding a "path=package" line, was parsed
C5_Witness ==
    /\ TypedCall /\ PrecisionCallsEmpty
    /\ env.launchable
    /\ Len(Variants) = 3
    /\ ret.err.isNil
    /\ Len(ret.pkgs) = 2
    /\ Contains(ret.out, <<"=">>)

\* the call succeeded with a non-empty body containing the package marker
Accepted(c) == c.err.isNil /\ c.out # <<>> /\ Contains(c.out, PackageMarker)

\* C8: for a requested type of user or system the variants are issued in the
\* order typed cmd listing, typed pm listing, unfiltered pm listing; the chain
\* stops at the first accepted variant, and reaches the unfiltered listing
\* only when both precision-flag variants were rejected.
C8_TypedChainOrder ==
    TypedCall =>
        LET order == <<CmdTyped(env.typ), PmTyped(env.typ), PmUnfiltered>>
            n == Len(Variants)
        IN  /\ n \in 1..3
            /\ \A k \in 1..n : Variants[k].args = order[k]
            /\ \A k \in 1..(n - 1) : ~Accepted(Variants[k])
            /\ n < 3 => Accepted(Variants[n])

\* the first precision-flag variant was rejected, the second accepted
C8_Witness ==
    /\ TypedCall
    /\ Len(Variants) = 2
    /\ Variants[1].err.isNil /\ Variants[1].out # <<>>
    /\ Accepted(Variants[2])
    /\ Len(ret.pkgs) = 2

(***************************************************************************)
(* Manager.Devices: the two device tables and their merge                  *)
(***************************************************************************)
FastbootWord == <<"f","a","s","t","b","o","o","t">>

FastbootNotFound ==
    <<"f","a","s","t","b","o","o","t"," ","e","x","e","c","u","t","a","b","l","e"," ",
      "n","o","t"," ","f","o","u","n","d"," ","i","n"," ","P","A","T","H">>

\* Manager.ExecFastboot: env.fastboot says whether exec.LookPath finds the tool
ExecFastboot_Launches(e, n, k, args) ==
    [args |-> args, out |-> e.dev[k].out,
     err |-> IF e.dev[k].fail THEN Error(ExitStatus1, n) ELSE Nil]

ExecFastboot(e, n, k, args) ==
    IF ~e.fastboot
    THEN [args |-> args, out |-> <<>>, err |-> Error(FastbootNotFound, 0)]
    ELSE [args |-> args, out |-> e.dev[k].out,
          err |-> IF e.dev[k].fail THEN Error(ExitStatus1, n) ELSE Nil]

\* the value of the last token "key:value" of rest with the given key, else ""
Attribute(rest, key) ==
    LET at == {i \in 1..Len(rest) : HasPrefix(rest[i], key \o <<":">>)}
    IN  IF at = {} THEN <<>> ELSE TrimPrefix(rest[SetMax(at)], key \o <<":">>)

\* one line of parseDevices
deviceLine(l) ==
    LET ln == TrimSpace(l)
        f == Fields(ln)
        hasState == ~Contains(f[2], <<":">>)
        rest == IF hasState THEN Tail(Tail(f)) ELSE Tail(f)
    IN  IF ln = <<>> THEN <<>>
        ELSE IF \/ HasPrefix(ln, <<"L","i","s","t"," ","o","f"," ","d","e","v","i","c","e","s">>)
                \/ HasPrefix(ln, <<"*">>)
                \/ Contains(ln, <<"d","a","e","m","o","n">>)
                \/ Contains(ln, <<"a","d","b"," ","s","e","r","v","e","r">>)
        THEN <<>>
        ELSE IF Len(f) < 2 THEN <<>>
        ELSE << [Serial |-> f[1],
                 State |-> IF hasState THEN f[2] ELSE <<>>,
                 Product |-> Attribute(rest, <<"p","r","o","d","u","c","t">>),
                 Model |-> Attribute(rest, <<"m","o","d","e","l">>),
                 Device |-> Attribute(rest, <<"d","e","v","i","c","e">>),
                 TransportID |-> Attribute(rest,
                                   <<"t","r","a","n","s","p","o","r","t","_","i","d">>)] >>

RECURSIVE parseDeviceLines(_)
parseDeviceLines(lines) ==
    IF lines = <<>> THEN <<>>
    ELSE deviceLine(Head(lines)) \o parseDeviceLines(Tail(lines))

parseDevices(output) == parseDeviceLines(SplitLines(output))

\* one line of parseFastbootDevices
fastbootLine(line) ==
    LET fields == Fields(line)
    IN  IF Len(fields) >= 2 /\ fields[2] = FastbootWord
        THEN << [Serial |-> fields[1], State |-> FastbootWord, Product |-> <<>>,
                 Model |-> <<>>, Device |-> <<>>, TransportID |-> <<>>] >>
        ELSE <<>>

RECURSIVE parseFastbootLines(_)
parseFastbootLines(lines) ==
    IF lines = <<>> THEN <<>>
    ELSE fastbootLine(Head(lines)) \o parseFastbootLines(Tail(lines))

parseFastbootDevices(output) == parseFastbootLines(SplitLines(output))

\* merged[d.Serial] = d
Put(merged, d) ==
    [s \in DOMAIN merged \cup {d.Serial} |-> IF s = d.Serial THEN d ELSE merged[s]]

\* the first loop of the merge: every bridge record is stored under its serial
RECURSIVE putAll(_, _)
putAll(merged, ds) ==
    IF ds = <<>> THEN merged
    ELSE putAll(Put(merged, Head(ds)), Tail(ds))

RECURSIVE putAbsent_Overwrite(_, _)
putAbsent_Overwrite(merged, ds) ==
    IF ds = <<>> THEN merged
    ELSE putAbsent_Overwrite(Put(merged, Head(ds)), Tail(ds))

\* the second loop: a boot-loader record is stored only under an absent serial
RECURSIVE putAbsent(_, _)
putAbsent(merged, ds) ==
    IF ds = <<>> THEN merged
    ELSE putAbsent(IF Head(ds).Serial \in DOMAIN merged THEN merged
                   ELSE Put(merged, Head(ds)),
                   Tail(ds))

\* the map built by Devices from the two lists
mergeDevices(adbDevices, fbDevices) == putAbsent(putAll(<<>>, adbDevices), fbDevices)

\* the slices that "for _, d := range merged" can build: every order of the values
Orderings(merged) ==
    LET n == Cardinality(DOMAIN merged)
    IN  { [i \in 1..n |-> merged[o[i]]] :
             o \in {x \in [1..n -> DOMAIN merged] :
                       \A i, j \in 1..n : x[i] = x[j] => i = j} }

AdbCall(e) == Exec(e, 2, 1, "devices -l")

FastbootCall(e) == ExecFastboot(e, 3, 2, "fastboot devices")

Devices(e) ==
    LET c0 == EnsureServer(e, 1)
        adb == AdbCall(e)
        fb == FastbootCall(e)
    IN  [calls |-> IF e.fastboot THEN <<c0, adb, fb>> ELSE <<c0, adb>>,
         merged |-> mergeDevices(parseDevices(adb.out), parseFastbootDevices(fb.out)),
         out |-> adb.out \o <<"\n">> \o fb.out,
         err |-> adb.err]

\* answers to "adb devices -l"
AdbDevicesOutputs ==
    { <<>>,
      <<"L","i","s","t"," ","o","f"," ","d","e","v","i","c","e","s"," ","a","t","t",
        "a","c","h","e","d","\n","A","\t","r","e","a","d","y","\n","\n">>,
      <<"L","i","s","t"," ","o","f"," ","d","e","v","i","c","e","s"," ","a","t","t",
        "a","c","h","e","d","\n","A"," ","d","e","v","i","c","e"," ","p","r","o","d",
        "u","c","t",":","p"," ","m","o","d","e","l",":","m"," ","t","r","a","n","s",
        "p","o","r","t","_","i","d",":","1","\n","C"," ","u","n","a","u","t","h","o",
        "r","i","z","e","d"," ","u","s","b",":","1","-","1","\n">>,
      <<"*"," ","d","a","e","m","o","n"," ","s","t","a","r","t","e","d"," ","s","u",
        "c","c","e","s","s","f","u","l","l","y","\n","A"," ","o","f","f","l","i","n",
        "e","\n","A"," ","d","e","v","i","c","e","\n">>,
      <<"B"," ","d","e","v","i","c","e"," ","e","x","t","r","a">> }

\* answers to "fastboot devices"
FastbootDevicesOutputs ==
    { <<>>,
      <<"A","\t","f","a","s","t","b","o","o","t","\n","B","\t","f","a","s","t","b",
        "o","o","t","\n">>,
      <<"B"," ","f","a","s","t","b","o","o","t">>,
      <<"<"," ","w","a","i","t","i","n","g"," ","f","o","r"," ","a","n","y"," ","d",
        "e","v","i","c","e"," ",">">> }

DevicesInit ==
    /\ UiInit
    /\ env \in [launchable : BOOLEAN, fastboot : BOOLEAN,
                dev : { <<a, f>> : a \in [out : AdbDevicesOutputs, fail : BOOLEAN],
                                   f \in [out : FastbootDevicesOutputs, fail : BOOLEAN] }]
    /\ op = "none"
    /\ calls = <<>>
    /\ ret = <<>>
    /\ disk = EmptyDisk

DevicesCall ==
    /\ op = "none"
    /\ op' = "Devices"
    /\ calls' = Devices(env).calls
    /\ \E result \in Orderings(Devices(env).merged) :
          ret' = [devices |-> result, out |-> Devices(env).out, err |-> Devices(env).err]
    /\ UNCHANGED <<env, uiVars, batchVars, disk, panelVars>>

DevicesSpec == DevicesInit /\ [][DevicesCall]_vars

\* the two input lists of the merge
BridgeList == parseDevices(AdbCall(env).out)
BootLoaderList == parseFastbootDevices(FastbootCall(env).out)

Serials(list) == {list[i].Serial : i \in 1..Len(list)}
Records(list) == {list[i] : i \in 1..Len(list)}

\* the values of a merged map, as a set
Values(merged) == {merged[s] : s \in DOMAIN merged}

\* C10: every identifier of either input list appears exactly once in the
\* result; an identifier of the bridge list carries a bridge record's state
\* and attributes, an identifier of the boot-loader list only carries state
\* "fastboot"; merging the boot-loader list into the result again gives the
\* same set; bridge [{A, ready}] with boot-loader [{A},{B}] gives
\* {A: ready, B: fastboot}.
C10_DeviceMerge ==
    op = "Devices" =>
        /\ Serials(ret.devices) = Serials(BridgeList) \cup Serials(BootLoaderList)
        /\ \A i, j \in 1..Len(ret.devices) :
              ret.devices[i].Serial = ret.devices[j].Serial => i = j
        /\ \A i \in 1..Len(ret.devices) :
              IF ret.devices[i].Serial \in Serials(BridgeList)
              THEN ret.devices[i] \in Records(BridgeList)
              ELSE /\ ret.devices[i].State = FastbootWord
                   /\ ret.devices[i] \in Records(BootLoaderList)
        /\ Values(mergeDevices(ret.devices, BootLoaderList)) = Records(ret.devices)
        /\ ( /\ Len(BridgeList) = 1
             /\ BridgeList[1].Serial = <<"A">>
             /\ BridgeList[1].State = <<"r","e","a","d","y">>
             /\ Serials(BootLoaderList) = {<<"A">>, <<"B">>} )
           => {<<d.Serial, d.State>> : d \in Records(ret.devices)}
                 = { <<<<"A">>, <<"r","e","a","d","y">>>>, <<<<"B">>, FastbootWord>> }

\* device A is in both lists and keeps its bridge state, B comes from the
\* boot-loader list alone
C10_Witness ==
    /\ op = "Devices"
    /\ <<"A">> \in Serials(BridgeList) \cap Serials(BootLoaderList)
    /\ <<"B">> \in Serials(BootLoaderList) \ Serials(BridgeList)
    /\ Len(ret.devices) = 2
    /\ \E i \in 1..2 : ret.devices[i].Serial = <<"A">>
                        /\ ret.devices[i].State = <<"r","e","a","d","y">>

(***************************************************************************)
(* Manager.GetVarAll: the variables reported by "fastboot getvar all"      *)
(***************************************************************************)
BootloaderTag == <<"(","b","o","o","t","l","o","a","d","e","r",")"," ">>

\* regexp ^\(bootloader\) (.+?):(.*) on one trimmed line: the lazy group takes
\* the shortest non-empty text that a colon follows
getVarMatch(line) ==
    LET rest == TrimPrefix(line, BootloaderTag)
        at == {i \in 2..Len(rest) : rest[i] = ":"}
    IN  IF HasPrefix(line, BootloaderTag) /\ at # {}
        THEN << [key |-> SubSeq(rest, 1, SetMin(at) - 1),
                 val |-> SubSeq(rest, SetMin(at) + 1, Len(rest))] >>
        ELSE <<>>

\* the loop of GetVarAll: vars[key] = val for every matching line, in order
RECURSIVE parseGetVar(_, _)
parseGetVar(m, lines) ==
    IF lines = <<>> THEN m
    ELSE LET match == getVarMatch(TrimSpace(Head(lines)))
             key == TrimSpace(match[1].key)
             val == TrimSpace(match[1].val)
         IN  parseGetVar(IF match = <<>> THEN m
                         ELSE [k \in DOMAIN m \cup {key} |->
                                  IF k = key THEN val ELSE m[k]],
                         Tail(lines))

GetVarAll(e) ==
    LET c1 == ExecFastboot(e, 1, 1, "fastboot getvar all")
    IN  [calls |-> IF e.fastboot THEN <<c1>> ELSE <<>>,
         ret |-> IF ~c1.err.isNil
                 THEN [vars |-> <<>>, out |-> c1.out, err |-> c1.err]
                 ELSE [vars |-> parseGetVar(<<>>, SplitLines(c1.out)),
                       out |-> c1.out, err |-> Nil]]

PartitionSizeLine ==
    <<"(","b","o","o","t","l","o","a","d","e","r",")"," ","p","a","r","t","i","t","i",
      "o","n","-","s","i","z","e",":","b","o","o","t",":"," ","0","x","4","0","0","0",
      "0","0","0">>

VersionLine ==
    <<"(","b","o","o","t","l","o","a","d","e","r",")"," ","v","e","r","s","i","o","n",
      ":"," ","0",".","5">>

\* lines that "fastboot getvar all" can print
GetVarLines ==
    { PartitionSizeLine,
      VersionLine,
      <<"v","e","r","s","i","o","n",":"," ","0",".","5">>,
      <<"(","b","o","o","t","l","o","a","d","e","r",")"," ","n","o","c","o","l","o","n">>,
      <<"(","b","o","o","t","l","o","a","d","e","r",")"," ",":",":","x">>,
      <<" "," ","(","b","o","o","t","l","o","a","d","e","r",")"," ","v","e","r","s",
        "i","o","n"," ",":"," ","0",".","6","\r">>,
      <<"O","K","A","Y"," ","["," "," ","0",".","0","1","0","s","]">>,
      <<>> }

\* answers to "fastboot getvar all": up to two of these lines
GetVarOutputs ==
    {<<>>} \cup GetVarLines
           \cup {a \o <<"\n">> \o b : a \in GetVarLines, b \in GetVarLines}

GetVarAllInit ==
    /\ UiInit
    /\ env \in [launchable : {TRUE}, fastboot : BOOLEAN,
                dev : {<<a>> : a \in [out : GetVarOutputs, fail : BOOLEAN]}]
    /\ op = "none"
    /\ calls = <<>>
    /\ ret = <<>>
    /\ disk = EmptyDisk

GetVarAllCall ==
    /\ op = "none"
    /\ op' = "GetVarAll"
    /\ calls' = GetVarAll(env).calls
    /\ ret' = GetVarAll(env).ret
    /\ UNCHANGED <<env, uiVars, batchVars, disk, panelVars>>

GetVarAllSpec == GetVarAllInit /\ [][GetVarAllCall]_vars

\* the line starts with the bracketed tag and has a colon after it
TaggedWithColon(l) ==
    /\ HasPrefix(TrimSpace(l), BootloaderTag)
    /\ Contains(TrimPrefix(TrimSpace(l), BootloaderTag), <<":">>)

\* C11: parsing the two lines "(bootloader) partition-size:boot: 0x4000000"
\* and "(bootloader) version: 0.5" yields exactly the map
\* { "partition-size:boot": "0x4000000", "version": "0.5" }, and when no line
\* carries both the bracketed tag and a colon the map is empty.
C11_GetVarAllExample ==
    (op = "GetVarAll" /\ ret.err.isNil) =>
        /\ ret.out = PartitionSizeLine \o <<"\n">> \o VersionLine
              => ret.vars =
                   ( <<"p","a","r","t","i","t","i","o","n","-","s","i","z","e",":",
                       "b","o","o","t">> :> <<"0","x","4","0","0","0","0","0","0">> )
                   @@ ( <<"v","e","r","s","i","o","n">> :> <<"0",".","5">> )
        /\ (\A i \in 1..Len(SplitLines(ret.out)) : ~TaggedWithColon(SplitLines(ret.out)[i]))
              => DOMAIN ret.vars = {}

(***************************************************************************)
(* Manager.ExtractAppData: the application data archive                    *)
(*                                                                         *)
(* env.pkg, env.destDir: the arguments; env.dev[1], env.dev[2]: the byte    *)
(* streams and exit status of the run-as and of the su tar command;         *)
(* env.mkdirOk, env.writeOk: whether local storage lets a directory be      *)
(* created and a file be written; env.before: what local storage holds.     *)
(***************************************************************************)
EmptyPackage == <<"e","m","p","t","y"," ","p","a","c","k","a","g","e">>

TarNotAvailable ==
    <<"a","p","p"," ","d","a","t","a"," ","t","a","r"," ","n","o","t"," ","a","v","a",
      "i","l","a","b","l","e"," ","(","r","e","q","u","i","r","e","s"," ","d","e","b",
      "u","g","g","a","b","l","e"," ","a","p","p"," ","o","r"," ","r","o","o","t",")">>

ArchivedTo ==
    <<"a","p","p"," ","d","a","t","a"," ","a","r","c","h","i","v","e","d"," ","t","o",
      " ">>

DataTar == <<"d","a","t","a",".","t","a","r">>

PermissionDenied ==
    <<"p","e","r","m","i","s","s","i","o","n"," ","d","e","n","i","e","d">>

\* filepath.Join of a clean directory name and a file name
Join(dir, name) == dir \o <<"/">> \o name

\* Manager.ExecRaw / ExecSerialRaw: the n-th launch, answered by dev[k] in bytes
ExecRaw(e, n, k, args) ==
    IF ~e.launchable
    THEN [args |-> args, out |-> <<>>, err |-> Error(ExecNotFound, n)]
    ELSE [args |-> args, out |-> e.dev[k].out,
          err |-> IF e.dev[k].fail THEN Error(ExitStatus1, n) ELSE Nil]

\* os.MkdirAll: an existing directory is left alone, a missing one is created
\* when storage allows it
MkdirAll(d, dir, ok) ==
    IF dir \in d.dirs THEN [disk |-> d, err |-> Nil]
    ELSE IF ok THEN [disk |-> [d EXCEPT !.dirs = @ \cup {dir}], err |-> Nil]
    ELSE [disk |-> d, err |-> Error(PermissionDenied, 0)]

\* the file at path holds data
WithFile(d, path, data) ==
    [d EXCEPT !.files = [f \in DOMAIN d.files \cup {path} |->
                            IF f = path THEN data ELSE d.files[f]]]

\* os.WriteFile: the file is created or truncated and holds data; a failing
\* write leaves the file as it was or holding a part of data
WriteFile(d, path, data, ok) ==
    IF ok THEN {[disk |-> WithFile(d, path, data), err |-> Nil]}
    ELSE {[disk |-> d, err |-> Error(PermissionDenied, 0)]}
         \cup {[disk |-> WithFile(d, path, SubSeq(data, 1, n)),
                err |-> Error(PermissionDenied, 0)] : n \in 0..(Len(data) - 1)}

RunAsTar(e) == ExecRaw(e, 1, 1, "exec-out run-as tar")

SuTar(e) == ExecRaw(e, 2, 2, "exec-out su tar")

\* the in-context attempt failed or yielded no bytes
NeedsRoot_Always(e) == TRUE

NeedsRoot(e) == ~RunAsTar(e).err.isNil \/ Len(RunAsTar(e).out) = 0

\* the outcomes of one call of ExtractAppData on storage d
ExtractAppData(e, d) ==
    LET destDir == IF e.destDir = <<>> THEN e.pkg ELSE e.destDir
        mk == MkdirAll(d, destDir, e.mkdirOk)
        c1 == RunAsTar(e)
        c2 == SuTar(e)
        out == IF NeedsRoot(e) THEN c2.out ELSE c1.out
        err == IF NeedsRoot(e) THEN c2.err ELSE c1.err
        launched == IF NeedsRoot(e) THEN <<c1, c2>> ELSE <<c1>>
        tarPath == Join(destDir, DataTar)
    IN  IF TrimSpace(e.pkg) = <<>>
        THEN {[calls |-> <<>>, disk |-> d,
               ret |-> [msg |-> <<>>, err |-> Error(EmptyPackage, 0)]]}
        ELSE IF ~mk.err.isNil
        THEN {[calls |-> <<>>, disk |-> d, ret |-> [msg |-> <<>>, err |-> mk.err]]}
        ELSE IF ~err.isNil \/ Len(out) = 0
        THEN {[calls |-> launched, disk |-> mk.disk,
               ret |-> [msg |-> TarNotAvailable, err |-> err]]}
        ELSE {[calls |-> launched, disk |-> w.disk,
               ret |-> IF w.err.isNil
                       THEN [msg |-> ArchivedTo \o tarPath, err |-> Nil]
                       ELSE [msg |-> <<>>, err |-> w.err]] :
                 w \in WriteFile(mk.disk, tarPath, out, e.writeOk)}

DestDir == <<"o","u","t">>

\* local storage before the call: nothing, the directory, or an older archive
StorageBefore(e) ==
    LET destDir == IF e.destDir = <<>> THEN e.pkg ELSE e.destDir
    IN  CASE e.before = "nothing" -> EmptyDisk
          [] e.before = "directory" -> [dirs |-> {destDir}, files |-> <<>>]
          [] e.before = "archive" ->
                [dirs |-> {destDir},
                 files |-> (Join(destDir, DataTar) :> <<"o","l","d">>)]

\* byte streams of the run-as tar command and of the su tar command
RunAsStreams == {<<>>, <<"a">>, <<"a","b">>}
SuStreams == {<<>>, <<"c">>, <<"c","d">>}

ExtractAppDataInit ==
    /\ UiInit
    /\ env \in [launchable : BOOLEAN,
                pkg : {<<>>, <<" ">>, PkgAB},
                destDir : {<<>>, DestDir},
                dev : {<<a, b>> : a \in [out : RunAsStreams, fail : BOOLEAN],
                                  b \in [out : SuStreams, fail : BOOLEAN]},
                mkdirOk : BOOLEAN,
                writeOk : BOOLEAN,
                before : {"nothing", "directory", "archive"}]
    /\ op = "none"
    /\ calls = <<>>
    /\ ret = <<>>
    /\ disk = StorageBefore(env)

ExtractAppDataCall ==
    /\ op = "none"
    /\ op' = "ExtractAppData"
    /\ \E o \in ExtractAppData(env, disk) :
          /\ calls' = o.calls
          /\ ret' = o.ret
          /\ disk' = o.disk
    /\ UNCHANGED <<env, uiVars, batchVars, panelVars>>

ExtractAppDataSpec == ExtractAppDataInit /\ [][ExtractAppDataCall]_vars

\* the call got as far as the archive strategies
StrategiesTried == op = "ExtractAppData" /\ calls # <<>>

\* the path of the archive of this call
TarPath == Join(IF env.destDir = <<>> THEN env.pkg ELSE env.destDir, DataTar)

\* a strategy failed or yielded no bytes
NoBytes(c) == ~c.err.isNil \/ Len(c.out) = 0

IsPrefix(a, b) == Len(a) <= Len(b) /\ a = SubSeq(b, 1, Len(a))

\* C12: the elevated tar stream is attempted if and only if the run-as attempt
\* failed or yielded zero bytes, and what the call writes to data.tar is the
\* byte stream of the one strategy tried last: all of it when the call
\* succeeds, never bytes of the other strategy.
C12_OneStrategy ==
    StrategiesTried =>
        /\ calls[1] = RunAsTar(env)
        /\ Len(calls) = 2 <=> NoBytes(calls[1])
        /\ Len(calls) = 2 => calls[2] = SuTar(env)
        /\ Len(calls) <= 2
        /\ LET last == calls[Len(calls)]
               was == StorageBefore(env).files
           IN  /\ ret.err.isNil /\ ret.msg # TarNotAvailable
                     => /\ TarPath \in DOMAIN disk.files
                        /\ disk.files[TarPath] = last.out
                        /\ ~NoBytes(last)
               /\ \A f \in DOMAIN disk.files :
                     \/ f \in DOMAIN was /\ disk.files[f] = was[f]
                     \/ f = TarPath /\ ~NoBytes(last) /\ IsPrefix(disk.files[f], last.out)

\* the run-as stream was unusable and the archive holds the su stream
C12_Witness ==
    /\ StrategiesTried
    /\ Len(calls) = 2
    /\ RunAsTar(env).out = <<"a","b">>
    /\ ret.err.isNil
    /\ TarPath \in DOMAIN disk.files
    /\ disk.files[TarPath] = <<"c","d">>

\* C13: when both archive strategies fail or yield no bytes, local storage
\* after the call equals local storage before it and the call returns the
\* archive-unavailable message.
C13_NothingWrittenOnFailure ==
    (StrategiesTried /\ Len(calls) = 2 /\ NoBytes(calls[1]) /\ NoBytes(calls[2]))
        => /\ disk = StorageBefore(env)
           /\ ret.msg = TarNotAvailable

(***************************************************************************)
(* Applications tab: multi-package batch actions (ui.go 720-812).          *)
(*                                                                         *)
(* T(key) is modelled by the key itself.                                   *)
(***************************************************************************)
Range(seq) == {seq[i] : i \in 1..Len(seq)}

\* strconv / %d for the counts of a batch
Itoa(n) == IF n >= 10 THEN <<DigitChar(n \div 10), DigitChar(n % 10)>> ELSE <<DigitChar(n)>>

\* getSelected: the entries of pkgs that are selected, in list order
RECURSIVE getSelected(_, _)
getSelected(list, sel) ==
    IF list = <<>> THEN <<>>
    ELSE (IF Head(list) \in sel THEN <<Head(list)>> ELSE <<>>)
            \o getSelected(Tail(list), sel)

\* the batch buttons: title and refreshAfter of their doBatch call
BatchButtons ==
    { [title |-> <<"b","a","t","c","h","_","u","n","i","n","s","t","a","l","l">>,
       refreshAfter |-> TRUE],
      [title |-> <<"b","a","t","c","h","_","c","l","e","a","r","_","d","a","t","a">>,
       refreshAfter |-> FALSE] }

\* results (output, error) of op(p)
OpResults ==
    { [out |-> <<"S","u","c","c","e","s","s">>, err |-> Nil],
      [out |-> <<" ">>, err |-> Nil],
      [out |-> <<"F","a","i","l","u","r","e">>, err |-> Error(ExitStatus1, 1)] }

\* the message recorded for target p
batchMessage(p, res) ==
    IF ~res.err.isNil
    THEN <<"[">> \o p \o <<"]"," ">> \o <<"e","r","r","o","r">> \o <<":"," ">>
              \o res.err.msg \o <<"\n">> \o res.out
    ELSE IF TrimSpace(res.out) # <<>>
    THEN <<"[">> \o p \o <<"]"," ">> \o res.out
    ELSE <<"[">> \o p \o <<"]"," ">> \o <<"o","k">>

\* the summary shown when the batch is over
batchSummary(b) ==
    b.title \o <<" ">> \o <<"c","o","m","p","l","e","t","e">> \o <<":"," ">>
        \o <<"s","u","c","c","e","s","s">> \o <<" ">> \o Itoa(b.okN) \o <<","," ">>
        \o <<"f","a","i","l","e","d">> \o <<" ">> \o Itoa(b.failN) \o <<"\n","\n">>
        \o JoinLines(b.msgs)

NoDevice == <<"n","o","_","d","e","v","i","c","e">>

PleaseSelectDevice ==
    <<"p","l","e","a","s","e","_","s","e","l","e","c","t","_","d","e","v","i","c","e">>

PleaseSelectApp ==
    <<"p","l","e","a","s","e","_","s","e","l","e","c","t","_","a","t","_","l","e","a",
      "s","t","_","o","n","e","_","a","p","p">>

\* doBatch, the part run by the tap: the two early returns, else the goroutine;
\* invoked and slept are history: the targets op was called with, the delays
doBatch(title, refreshAfter) ==
    LET targets == getSelected(pkgs, selectedPkgs) IN
    IF TrimSpace(selectedSerial) = <<>>
    THEN /\ dialogs' = Append(dialogs, [title |-> NoDevice, message |-> PleaseSelectDevice])
         /\ UNCHANGED batches
    ELSE IF Len(targets) = 0
    THEN /\ dialogs' = Append(dialogs, [title |-> title, message |-> PleaseSelectApp])
         /\ UNCHANGED batches
    ELSE /\ batches' = Append(batches,
                          [title |-> title, refreshAfter |-> refreshAfter,
                           targets |-> targets, i |-> 1, okN |-> 0, failN |-> 0,
                           msgs |-> <<>>, pc |-> "op", invoked |-> <<>>, slept |-> 0])
         /\ UNCHANGED dialogs

\* chk.OnChanged of the row of package p
CheckChanged ==
    /\ events < MaxBatchEvents
    /\ events' = events + 1
    /\ \E p \in Range(pkgs) : \E v \in BOOLEAN :
          selectedPkgs' = IF v THEN selectedPkgs \cup {p} ELSE selectedPkgs \ {p}
    /\ UNCHANGED <<selectedSerial, pkgs, labels, labelFetchRunning, fetchGen, loads, runs,
                   uiQueue, requests, batches, dialogs>>
    /\ UNCHANGED <<adbVars, panelVars>>

\* btnSelAll
SelectAllTapped ==
    /\ events < MaxBatchEvents
    /\ events' = events + 1
    /\ selectedPkgs' = selectedPkgs \cup Range(pkgs)
    /\ UNCHANGED <<selectedSerial, pkgs, labels, labelFetchRunning, fetchGen, loads, runs,
                   uiQueue, requests, batches, dialogs>>
    /\ UNCHANGED <<adbVars, panelVars>>

\* btnSelNone
ClearSelectionTapped ==
    /\ events < MaxBatchEvents
    /\ events' = events + 1
    /\ selectedPkgs' = {}
    /\ UNCHANGED <<selectedSerial, pkgs, labels, labelFetchRunning, fetchGen, loads, runs,
                   uiQueue, requests, batches, dialogs>>
    /\ UNCHANGED <<adbVars, panelVars>>

\* one of the batch buttons
BatchTapped ==
    /\ events < MaxBatchEvents
    /\ events' = events + 1
    /\ \E b \in BatchButtons : doBatch(b.title, b.refreshAfter)
    /\ UNCHANGED <<selectedSerial, pkgs, labels, labelFetchRunning, fetchGen, loads, runs,
                   uiQueue, requests, selectedPkgs>>
    /\ UNCHANGED <<adbVars, panelVars>>

BatchOp_AbortOnFailure ==
    \E k \in 1..Len(batches) : \E res \in OpResults :
        LET b == batches[k]
            p == b.targets[b.i]
        IN
        /\ b.pc = "op"
        /\ batches' = [batches EXCEPT
              ![k].okN = IF res.err.isNil THEN b.okN + 1 ELSE b.okN,
              ![k].failN = IF res.err.isNil THEN b.failN ELSE b.failN + 1,
              ![k].msgs = Append(b.msgs, batchMessage(p, res)),
              ![k].invoked = Append(b.invoked, p),
              ![k].pc = IF res.err.isNil THEN "sleep" ELSE "report"]
        /\ UNCHANGED <<uiVars, adbVars, selectedPkgs, dialogs, panelVars>>

\* the batch goroutine: op(p) returns, the outcome of p is counted and recorded
BatchOp ==
    \E k \in 1..Len(batches) : \E res \in OpResults :
        LET b == batches[k]
            p == b.targets[b.i]
        IN
        /\ b.pc = "op"
        /\ batches' = [batches EXCEPT
              ![k].okN = IF res.err.isNil THEN b.okN + 1 ELSE b.okN,
              ![k].failN = IF res.err.isNil THEN b.failN ELSE b.failN + 1,
              ![k].msgs = Append(b.msgs, batchMessage(p, res)),
              ![k].invoked = Append(b.invoked, p),
              ![k].pc = "sleep"]
        /\ UNCHANGED <<uiVars, adbVars, selectedPkgs, dialogs, panelVars>>

\* the batch goroutine: time.Sleep(100ms) is over, next target or end of loop
BatchSleep ==
    \E k \in 1..Len(batches) :
        LET b == batches[k] IN
        /\ b.pc = "sleep"
        /\ batches' = [batches EXCEPT
              ![k].slept = b.slept + 1,
              ![k].i = b.i + 1,
              ![k].pc = IF b.i + 1 > Len(b.targets) THEN "report" ELSE "op"]
        /\ UNCHANGED <<uiVars, adbVars, selectedPkgs, dialogs, panelVars>>

\* the batch goroutine: the summary is handed to fyne.Do, the goroutine ends
BatchReport ==
    \E k \in 1..Len(batches) :
        LET b == batches[k] IN
        /\ b.pc = "report"
        /\ uiQueue' = Append(uiQueue, [kind |-> "batch", title |-> b.title,
                                       summary |-> batchSummary(b),
                                       refreshAfter |-> b.refreshAfter])
        /\ batches' = RemoveAt(batches, k)
        /\ UNCHANGED <<selectedSerial, pkgs, labels, labelFetchRunning, fetchGen, loads,
                       runs, events, requests, selectedPkgs, dialogs>>
        /\ UNCHANGED <<adbVars, panelVars>>

\* the tab with a device selected or not and a package list loaded or not
BatchInit ==
    /\ selectedSerial \in {Serial1, <<" ">>}
    /\ pkgs \in {<<InitialTip>>, <<PkgAB, PkgCD>>}
    /\ labels = <<>>
    /\ labelFetchRunning = FALSE
    /\ fetchGen = 0
    /\ loads = EmptyBag
    /\ runs = <<>>
    /\ uiQueue = <<>>
    /\ events = 0
    /\ requests = 0
    /\ selectedPkgs = {}
    /\ batches = <<>>
    /\ dialogs = <<>>
    /\ appType = T("en", "user_apps")
    /\ PanelIdle
    /\ AdbIdle

BatchNext ==
    \/ CheckChanged
    \/ SelectAllTapped
    \/ ClearSelectionTapped
    \/ BatchTapped
    \/ BatchOp
    \/ BatchSleep
    \/ BatchReport
    \/ UIRun

BatchSpec == BatchInit /\ [][BatchNext]_vars

\* C16: a batch invokes its operation once for every selected target, in
\* order, one call at a time with a delay after each, whether or not earlier
\* targets failed; when it finishes, success count plus failure count equals
\* the number of targets and one outcome message is recorded per target.
C16_BatchCompletes ==
    \A k \in 1..Len(batches) :
        LET b == batches[k]
            done == IF b.pc = "op" THEN b.i - 1 ELSE IF b.pc = "sleep" THEN b.i
                    ELSE Len(b.targets)
        IN  /\ b.invoked = SubSeq(b.targets, 1, done)
            /\ b.okN + b.failN = done
            /\ Len(b.msgs) = done
            /\ \A j \in 1..done : HasPrefix(b.msgs[j], <<"[">> \o b.targets[j] \o <<"]">>)
            /\ b.slept = IF b.pc = "sleep" THEN done - 1 ELSE done
            /\ b.pc = "report" => b.okN + b.failN = Len(b.targets)

\* a batch over two targets is finished: the first target failed, the second
\* was still invoked and succeeded
C16_Witness ==
    \E k \in 1..Len(batches) :
        /\ batches[k].pc = "report"
        /\ Len(batches[k].targets) = 2
        /\ batches[k].failN = 1
        /\ batches[k].okN = 1
        /\ HasPrefix(batches[k].msgs[1], <<"[","a",".","b","]"," ","e","r","r","o","r">>)

(***************************************************************************)
(* Manager.Push / PushMultiple / Pull / PullMultiple: file transfers       *)
(*                                                                         *)
(* env.paths: the paths to transfer; env.dir: the remote directory of a    *)
(* push, the local directory of a pull; env.preserve; env.dev[j]: the       *)
(* answer to the transfer of the j-th path; env.plain[j]: the answer to     *)
(* its retry without -a.  A launch record of a transfer also carries item,  *)
(* the position of its path in env.paths.                                   *)
(***************************************************************************)
InvalidPush ==
    <<"i","n","v","a","l","i","d"," ","p","u","s","h"," ","a","r","g","u","m","e","n",
      "t","s">>

InvalidPull ==
    <<"i","n","v","a","l","i","d"," ","p","u","l","l"," ","a","r","g","u","m","e","n",
      "t","s">>

NoFilesToPush == <<"n","o"," ","f","i","l","e","s"," ","t","o"," ","p","u","s","h">>

NoFilesToPull == <<"n","o"," ","f","i","l","e","s"," ","t","o"," ","p","u","l","l">>

\* path.Base of a remote path
Base(path) == SubSeq(path, LastIndex(path, <<"/">>) + 2, Len(path))

\* Manager.Push of the j-th path, as the n-th launch of the operation
Push(e, n, j, localPath, remoteDir) ==
    LET dir == IF HasSuffix(remoteDir, <<"/">>) THEN remoteDir ELSE remoteDir \o <<"/">>
        c == [item |-> j] @@ Exec(e, n, j, <<"push", localPath, dir>>)
    IN  IF TrimSpace(localPath) = <<>> \/ TrimSpace(remoteDir) = <<>>
        THEN [calls |-> <<>>, out |-> <<>>, err |-> Error(InvalidPush, 0)]
        ELSE [calls |-> <<c>>, out |-> c.out, err |-> c.err]

\* the loop of PushMultiple from the j-th path on
RECURSIVE pushFrom(_, _, _)
pushFrom(e, j, acc) ==
    IF j > Len(e.paths) THEN acc
    ELSE LET r == Push(e, Len(acc.calls) + 1, j, e.paths[j], e.dir)
         IN  pushFrom(e, j + 1,
                      [calls |-> acc.calls \o r.calls,
                       outs |-> Append(acc.outs, r.out),
                       firstErr |-> IF ~r.err.isNil /\ acc.firstErr.isNil
                                    THEN r.err ELSE acc.firstErr])

PushMultiple(e) ==
    LET all == pushFrom(e, 1, [calls |-> <<>>, outs |-> <<>>, firstErr |-> Nil])
    IN  IF Len(e.paths) = 0
        THEN [calls |-> <<>>, ret |-> [out |-> <<>>, err |-> Error(NoFilesToPush, 0)]]
        ELSE [calls |-> all.calls,
              ret |-> [out |-> JoinLines(all.outs), err |-> all.firstErr]]

\* what a successful "adb pull" leaves in the local directory
Pulled(d, localDir, remotePath, c) ==
    IF c.err.isNil THEN WithFile(d, Join(localDir, Base(remotePath)), <<"d">>) ELSE d

\* Manager.Pull of the j-th path on storage d, its first launch being the n-th
Pull(e, d, n, j, remotePath, localDir, preserve) ==
    LET mk == MkdirAll(d, localDir, e.mkdirOk)
        c1 == [item |-> j] @@
              Exec(e, n, j, IF preserve THEN <<"pull", "-a", remotePath, localDir>>
                            ELSE <<"pull", remotePath, localDir>>)
        c2 == [item |-> j] @@
              Exec([e EXCEPT !.dev = e.plain], n + 1, j, <<"pull", remotePath, localDir>>)
        retry == ~c1.err.isNil /\ preserve
        last == IF retry THEN c2 ELSE c1
    IN  IF TrimSpace(remotePath) = <<>> \/ TrimSpace(localDir) = <<>>
        THEN [calls |-> <<>>, disk |-> d, out |-> <<>>, err |-> Error(InvalidPull, 0)]
        ELSE IF ~mk.err.isNil
        THEN [calls |-> <<>>, disk |-> d, out |-> <<>>, err |-> mk.err]
        ELSE [calls |-> IF retry THEN <<c1, c2>> ELSE <<c1>>,
              disk |-> Pulled(mk.disk, localDir, remotePath, last),
              out |-> last.out, err |-> last.err]

\* the loop of PullMultiple from the j-th path on
RECURSIVE pullFrom(_, _, _)
pullFrom(e, j, acc) ==
    IF j > Len(e.paths) THEN acc
    ELSE LET r == Pull(e, acc.disk, Len(acc.calls) + 1, j, e.paths[j], e.dir, e.preserve)
         IN  pullFrom(e, j + 1,
                      [calls |-> acc.calls \o r.calls,
                       disk |-> r.disk,
                       outs |-> Append(acc.outs, r.out),
                       firstErr |-> IF ~r.err.isNil /\ acc.firstErr.isNil
                                    THEN r.err ELSE acc.firstErr])

PullMultiple(e, d) ==
    LET mk == MkdirAll(d, e.dir, e.mkdirOk)
        all == pullFrom(e, 1, [calls |-> <<>>, disk |-> mk.disk, outs |-> <<>>,
                               firstErr |-> Nil])
    IN  IF Len(e.paths) = 0
        THEN [calls |-> <<>>, disk |-> d,
              ret |-> [out |-> <<>>, err |-> Error(NoFilesToPull, 0)]]
        ELSE IF ~mk.err.isNil
        THEN [calls |-> <<>>, disk |-> d, ret |-> [out |-> <<>>, err |-> mk.err]]
        ELSE [calls |-> all.calls, disk |-> all.disk,
              ret |-> [out |-> JoinLines(all.outs), err |-> all.firstErr]]

\* paths handed to a transfer: two files and a blank path
TransferPaths == {<<"/","a">>, <<"/","s","/","b">>, <<" ">>}

\* answers of adb to one transfer
TransferAnswers ==
    { [out |-> <<"1"," ","f","i","l","e">>, fail |-> FALSE],
      [out |-> <<"a","d","b",":"," ","e","r","r","o","r">>, fail |-> TRUE] }

TransferInit ==
    /\ UiInit
    /\ env \in [launchable : BOOLEAN,
                paths : UNION {[1..n -> TransferPaths] : n \in 0..MaxPaths},
                dir : {DestDir},
                preserve : BOOLEAN,
                dev : [1..MaxPaths -> TransferAnswers],
                plain : [1..MaxPaths -> TransferAnswers],
                mkdirOk : BOOLEAN]
    /\ op = "none"
    /\ calls = <<>>
    /\ ret = <<>>
    /\ disk = EmptyDisk

PushMultipleCall ==
    /\ op = "none"
    /\ op' = "PushMultiple"
    /\ calls' = PushMultiple(env).calls
    /\ ret' = PushMultiple(env).ret
    /\ UNCHANGED <<env, uiVars, batchVars, disk, panelVars>>

PullMultipleCall ==
    /\ op = "none"
    /\ op' = "PullMultiple"
    /\ calls' = PullMultiple(env, disk).calls
    /\ ret' = PullMultiple(env, disk).ret
    /\ disk' = PullMultiple(env, disk).disk
    /\ UNCHANGED <<env, uiVars, batchVars, panelVars>>

TransferSpec == TransferInit /\ [][PushMultipleCall \/ PullMultipleCall]_vars

\* the call is a multi-file transfer that got into its loop
TransferLoopRan ==
    /\ op \in {"PushMultiple", "PullMultiple"}
    /\ Len(env.paths) > 0
    /\ op = "PullMultiple" => (env.mkdirOk /\ TrimSpace(env.dir) # <<>>)

\* the positions in env.paths of the paths that are not blank
ValidItems == {j \in 1..Len(env.paths) : TrimSpace(env.paths[j]) # <<>>}

\* the launch that settles the j-th path: its last one
LastLaunch(j) == calls[SetMax({i \in 1..Len(calls) : calls[i].item = j})]

\* a fixed delay is a step of the call between two launches; the operations
\* record nothing but launches in calls
IsDelay(c) == c.args = <<"time.Sleep">>

\* C17: a multi-file transfer executes one transfer per path, sequentially in
\* input order, with a delay between consecutive transfers, attempts every
\* path even after an earlier one failed, and returns the error of the first
\* failing path.
C17_TransfersSequentialWithDelay ==
    TransferLoopRan =>
        /\ {calls[i].item : i \in {i \in 1..Len(calls) : ~IsDelay(calls[i])}} = ValidItems
        /\ \A i \in 1..(Len(calls) - 1) :
              /\ ~IsDelay(calls[i]) /\ ~IsDelay(calls[i + 1])
                    => /\ calls[i].item <= calls[i + 1].item
                       /\ calls[i].item = calls[i + 1].item
        /\ LET failing == {j \in ValidItems : ~LastLaunch(j).err.isNil}
                             \cup (1..Len(env.paths) \ ValidItems)
           IN  IF failing = {} THEN ret.err.isNil
               ELSE /\ ~ret.err.isNil
                    /\ SetMin(failing) \in ValidItems
                          => ret.err = LastLaunch(SetMin(failing)).err

\* the same without the delay: input order, every path attempted, the error
\* of the first failing path returned
TransfersInOrderFirstError ==
    TransferLoopRan =>
        /\ {calls[i].item : i \in 1..Len(calls)} = ValidItems
        /\ \A i \in 1..(Len(calls) - 1) : calls[i].item <= calls[i + 1].item
        /\ LET failing == {j \in ValidItems : ~LastLaunch(j).err.isNil}
                             \cup (1..Len(env.paths) \ ValidItems)
           IN  IF failing = {} THEN ret.err.isNil
               ELSE /\ ~ret.err.isNil
                    /\ SetMin(failing) \in ValidItems
                          => ret.err = LastLaunch(SetMin(failing)).err

(***************************************************************************)
(* Manager.AppLabel: the label of a package                                *)
(*                                                                         *)
(* env.pkg: the package; env.dev[1..4]: the answers to the two grepped      *)
(* one-line commands and to the two full dumps.                             *)
(***************************************************************************)
ApplicationLabel ==
    <<"a","p","p","l","i","c","a","t","i","o","n","-","l","a","b","e","l">>

NonLocalizedLabel ==
    <<"n","o","n","L","o","c","a","l","i","z","e","d","L","a","b","e","l">>

\* regexp [\w-]
WordOrDash(c) == IsLetter(c) \/ IsDigit(c) \/ c \in {"_", "-"}

\* regexp [^']
NotQuote(c) == c # "'"

\* re1 = application-label(?:-[\w-]+)?\s*:\s*'?([^']*)'? tried at s[i]
re1At(s, i) ==
    LET j0 == i + Len(ApplicationLabel)
        suffix == j0 <= Len(s) /\ s[j0] = "-"
        j1 == IF suffix THEN j0 + 1 + RunLen(s, j0 + 1, WordOrDash) ELSE j0
        j2 == j1 + RunLen(s, j1, IsSpace)
        j3 == j2 + 1 + RunLen(s, j2 + 1, IsSpace)
        j4 == IF j3 <= Len(s) /\ s[j3] = "'" THEN j3 + 1 ELSE j3
    IN  IF /\ HasPrefix(SubSeq(s, i, Len(s)), ApplicationLabel)
           /\ suffix => RunLen(s, j0 + 1, WordOrDash) >= 1
           /\ j2 <= Len(s)
           /\ s[j2] = ":"
        THEN <<SubSeq(s, j4, j4 + RunLen(s, j4, NotQuote) - 1)>>
        ELSE <<>>

\* re1.FindStringSubmatch(s): the capture of the leftmost match, if any
re1(s) ==
    LET at == {i \in 1..Len(s) : re1At(s, i) # <<>>}
    IN  IF at = {} THEN <<>> ELSE re1At(s, SetMin(at))

\* re2 = nonLocalizedLabel=?'?(.*?)'?(\s|$) tried at s[i]: the lazy capture
\* ends at the first place followed by white space, by the end, or by a quote
\* that white space or the end follows
re2At(s, i) ==
    LET j0 == i + Len(NonLocalizedLabel)
        j1 == IF j0 <= Len(s) /\ s[j0] = "=" THEN j0 + 1 ELSE j0
        j2 == IF j1 <= Len(s) /\ s[j1] = "'" THEN j1 + 1 ELSE j1
        ends == {e \in (j2 - 1)..Len(s) :
                    \/ e = Len(s)
                    \/ IsSpace(s[e + 1])
                    \/ s[e + 1] = "'" /\ (e + 1 = Len(s) \/ IsSpace(s[e + 2]))}
    IN  IF HasPrefix(SubSeq(s, i, Len(s)), NonLocalizedLabel)
        THEN <<SubSeq(s, j2, SetMin(ends))>>
        ELSE <<>>

\* re2.FindStringSubmatch(s): the capture of the leftmost match, if any
re2(s) ==
    LET at == {i \in 1..Len(s) : re2At(s, i) # <<>>}
    IN  IF at = {} THEN <<>> ELSE re2At(s, SetMin(at))

\* the body of the loop over the lines for one line, label being "" so far
lineLabel(ln) ==
    LET s == TrimSpace(ln)
        l1 == IF re1(s) # <<>> THEN TrimSpace(re1(s)[1]) ELSE <<>>
    IN  IF l1 # <<>> THEN l1
        ELSE IF re2(s) # <<>> THEN TrimSpace(re2(s)[1]) ELSE <<>>

\* the loop over the lines: it breaks at the first line that sets label
RECURSIVE scanLabel(_)
scanLabel(lines) ==
    IF lines = <<>> THEN <<>>
    ELSE IF lineLabel(Head(lines)) # <<>> THEN lineLabel(Head(lines))
    ELSE scanLabel(Tail(lines))

labelOrPkg_NoDefault(label, pkg) == label

\* if label == "" { label = pkg }
labelOrPkg(label, pkg) == IF label = <<>> THEN pkg ELSE label

AppLabel(e) ==
    LET c1 == Exec(e, 1, 1, "shell sh -lc cmd package dump | grep")
        second == ~c1.err.isNil \/ TrimSpace(c1.out) = <<>>
        c2 == Exec(e, 2, 2, "shell sh -lc dumpsys package | grep")
        grepped == IF second THEN <<c1, c2>> ELSE <<c1>>
        g == grepped[Len(grepped)]
        third == TrimSpace(g.out) = <<>>
        c3 == Exec(e, Len(grepped) + 1, 3, "shell cmd package dump")
        fourth == ~c3.err.isNil \/ TrimSpace(c3.out) = <<>>
        c4 == Exec(e, Len(grepped) + 2, 4, "shell dumpsys package")
        launched == IF ~third THEN grepped
                    ELSE IF fourth THEN grepped \o <<c3, c4>> ELSE grepped \o <<c3>>
        last == launched[Len(launched)]
    IN  IF TrimSpace(e.pkg) = <<>>
        THEN [calls |-> <<>>,
              ret |-> [name |-> <<>>, out |-> <<>>, err |-> Error(EmptyPackage, 0)]]
        ELSE [calls |-> launched,
              ret |-> [name |-> labelOrPkg(scanLabel(SplitLines(last.out)), e.pkg),
                       out |-> last.out, err |-> last.err]]

\* answers to the grepped one-line commands
GrepOutputs ==
    { <<>>,
      <<"a","p","p","l","i","c","a","t","i","o","n","-","l","a","b","e","l",":","'",
        "M","y"," ","A","p","p","'","\n">>,
      <<" "," "," "," ","n","o","n","L","o","c","a","l","i","z","e","d","L","a","b",
        "e","l","=","C","a","m"," ","e","r","a"," ","i","c","o","n","=","0","x","0">>,
      <<"a","p","p","l","i","c","a","t","i","o","n","-","l","a","b","e","l",":","'",
        "'">>,
      <<"e","r","r","o","r",":"," ","d","e","v","i","c","e"," ","o","f","f","l","i",
        "n","e">> }

\* answers to the full dumps
DumpOutputs ==
    { <<>>,
      <<"P","a","c","k","a","g","e","s",":","\n"," "," ","v","e","r","s","i","o","n",
        "N","a","m","e","=","1","\n">>,
      <<"a","p","p","l","i","c","a","t","i","o","n","-","l","a","b","e","l",":","'",
        "'","\n"," "," ","l","a","b","e","l","R","e","s","=","0","x","7","f"," ","n",
        "o","n","L","o","c","a","l","i","z","e","d","L","a","b","e","l","=","'","T",
        "w","o"," ","W","o","r","d","s","'","\n","a","p","p","l","i","c","a","t","i",
        "o","n","-","l","a","b","e","l","-","z","h","-","C","N",":"," ","'","W","o",
        "'","\n">>,
      <<" "," ","n","o","n","L","o","c","a","l","i","z","e","d","L","a","b","e","l",
        "="," ","\n"," ","a","p","p","l","i","c","a","t","i","o","n","-","l","a","b",
        "e","l","-","z","h","_","C","N"," ",":"," ","W","o"," ","\n">> }

AppLabelInit ==
    /\ UiInit
    /\ \/ env \in [launchable : {TRUE},
                   pkg : {PkgAB},
                   dev : { <<a, b, c, d>> : a \in [out : GrepOutputs, fail : BOOLEAN],
                                            b \in [out : GrepOutputs, fail : BOOLEAN],
                                            c \in [out : DumpOutputs, fail : BOOLEAN],
                                            d \in [out : DumpOutputs, fail : BOOLEAN] }]
       \* a blank package name, or adb cannot be launched: no call has an answer
       \/ env \in [launchable : BOOLEAN,
                   pkg : {PkgAB, <<" ">>},
                   dev : { [k \in 1..4 |-> [out |-> <<>>, fail |-> TRUE]] }]
    /\ op = "none"
    /\ calls = <<>>
    /\ ret = <<>>
    /\ disk = EmptyDisk

AppLabelCall ==
    /\ op = "none"
    /\ op' = "AppLabel"
    /\ calls' = AppLabel(env).calls
    /\ ret' = AppLabel(env).ret
    /\ UNCHANGED <<env, uiVars, batchVars, disk, panelVars>>

AppLabelSpec == AppLabelInit /\ [][AppLabelCall]_vars

\* the non-empty trimmed captures of the two label patterns on a line
Captures(ln) ==
    {TrimSpace(c[1]) : c \in {re1(TrimSpace(ln)), re2(TrimSpace(ln))} \ {<<>>}} \ {<<>>}

ProductKey == <<"p","r","o","d","u","c","t">>
ModelKey == <<"m","o","d","e","l">>
DeviceKey == <<"d","e","v","i","c","e">>
TransportKey == <<"t","r","a","n","s","p","o","r","t","_","i","d">>

\* tokens that "adb devices -l" can print after the state word
DeviceTokens ==
    { [key |-> ProductKey, val |-> <<"p","1">>],
      [key |-> ModelKey, val |-> <<"P","i","x","e","l">>],
      [key |-> ModelKey, val |-> <<"x",":","y">>],
      [key |-> DeviceKey, val |-> <<"d","a","e","m","o","n","_","x">>],
      [key |-> TransportKey, val |-> <<"1","2">>],
      [key |-> <<"u","s","b">>, val |-> <<"1","-","1">>],
      [key |-> <<>>, val |-> <<"e","x","t","r","a">>] }

\* the text of a token
TokenText(t) == IF t.key = <<>> THEN t.val ELSE t.key \o <<":">> \o t.val

\* the text of the tokens, each after a blank
RECURSIVE TokensText(_)
TokensText(tokens) ==
    IF tokens = <<>> THEN <<>>
    ELSE <<" ">> \o TokenText(Head(tokens)) \o TokensText(Tail(tokens))

\* the device-table line
DeviceTableLine(e) == e.serial \o <<"\t">> \o e.state \o TokensText(e.tokens) \o <<"\n">>

ParseDevicesInit ==
    /\ UiInit
    /\ env \in [serial : {<<"A">>, <<"e","m","u","-","1">>},
                state : {<<"d","e","v","i","c","e">>, <<"o","f","f","l","i","n","e">>},
                tokens : UNION {[1..n -> DeviceTokens] : n \in 0..MaxTokens}]
    /\ op = "none"
    /\ calls = <<>>
    /\ ret = <<>>
    /\ disk = EmptyDisk

ParseDevicesCall ==
    /\ op = "none"
    /\ op' = "parseDevices"
    /\ calls' = <<>>
    /\ ret' = [devices |-> parseDevices(DeviceTableLine(env))]
    /\ UNCHANGED <<env, uiVars, batchVars, disk, panelVars>>

ParseDevicesSpec == ParseDevicesInit /\ [][ParseDevicesCall]_vars

\* the values of the tokens of the line that have the given key
TokenValues(key) ==
    {env.tokens[i].val : i \in {j \in 1..Len(env.tokens) : env.tokens[j].key = key}}

\* the field is the value of a token with the key, and empty without one
FieldFromTokens(field, key) ==
    IF TokenValues(key) = {} THEN field = <<>> ELSE field \in TokenValues(key)

\* C19: for a device-table line made of an identifier, a state word and any
\* further tokens, parseDevices returns one record with that identifier and
\* state whose product, model, device and transport id are the values of the
\* tokens with these keys; other tokens change no field and never make the
\* line disappear.
C19_DeviceLineParsed ==
    op = "parseDevices" =>
        /\ Len(ret.devices) = 1
        /\ ret.devices[1].Serial = env.serial
        /\ ret.devices[1].State = env.state
        /\ FieldFromTokens(ret.devices[1].Product, ProductKey)
        /\ FieldFromTokens(ret.devices[1].Model, ModelKey)
        /\ FieldFromTokens(ret.devices[1].Device, DeviceKey)
        /\ FieldFromTokens(ret.devices[1].TransportID, TransportKey)

(***************************************************************************)
(* The fastboot tab: a boot-loader command, before or after Devices        *)
(***************************************************************************)
\* the launch of one command of the fastboot tab, answered by env.dev[2]
RebootCall(e) == ExecFastboot(e, Len(calls) + 1, 2, "fastboot reboot")

\* btnFbReboot: mgr.ExecFastboot(serial, "reboot"); the launch, if there is
\* one, is added to the launches made so far
ExecFastbootCall ==
    /\ op \in {"none", "Devices"}
    /\ op' = "ExecFastboot"
    /\ calls' = IF env.fastboot THEN Append(calls, RebootCall(env)) ELSE calls
    /\ ret' = [out |-> RebootCall(env).out, err |-> RebootCall(env).err]
    /\ UNCHANGED <<env, uiVars, batchVars, disk, panelVars>>

FastbootTabNext == DevicesCall \/ ExecFastbootCall

FastbootTabSpec == DevicesInit /\ [][FastbootTabNext]_vars

\* the launches of the boot-loader tool among the launches made so far
FastbootLaunches ==
    {i \in 1..Len(calls) : calls[i].args \in {"fastboot devices", "fastboot reboot"}}

\* C20: when the boot-loader tool cannot be found, a boot-loader operation
\* (a fastboot command, GetVarAll) returns a failure and no process of the
\* tool is ever launched; Devices still returns every endpoint of the bridge
\* table, each with its bridge record, and the failure status it returns is
\* that of the bridge call.
C20_MissingToolFailsAlone ==
    ~env.fastboot =>
        /\ FastbootLaunches = {}
        /\ ~GetVarAll(env).ret.err.isNil /\ GetVarAll(env).calls = <<>>
        /\ op = "ExecFastboot" =>
              /\ ~ret.err.isNil
              /\ ret.err.msg = FastbootNotFound
              /\ ret.out = <<>>
              /\ calls \in {<<>>, Devices(env).calls}
        /\ op = "Devices" =>
              /\ Serials(ret.devices) = Serials(BridgeList)
              /\ Records(ret.devices) \subseteq Records(BridgeList)
              /\ ret.err = AdbCall(env).err
              /\ ret.err.isNil = (env.launchable /\ ~env.dev[1].fail)

\* without the tool, Devices listed two bridge endpoints and reported the
\* failure of the bridge call; the fastboot command after it failed and
\* launched nothing
C20_Witness ==
    /\ ~env.fastboot
    /\ op = "ExecFastboot"
    /\ ~ret.err.isNil
    /\ calls = Devices(env).calls
    /\ Len(calls) = 2
    /\ Len(BridgeList) = 2
    /\ env.dev[1].fail
    /\ env.dev[2].out # <<>>

(***************************************************************************)
(* The Applications tab refreshed again and again on the device with the   *)
(* long package list.  The goroutines and the UI thread keep running, and  *)
(* the refresh button is tapped again whenever the tab has come to rest.   *)
(***************************************************************************)
\* nothing is in flight: no loading goroutine, no pending closure, no run
AtRest == loads = EmptyBag /\ uiQueue = <<>> /\ runs = <<>>

\* refreshBtn.OnTapped on the tab at rest; requests counts from this tap on
RefreshAgain ==
    /\ AtRest
    /\ loads' = refreshPackages(refreshUsers(loads))
    /\ requests' = 0
    /\ UNCHANGED <<selectedSerial, pkgs, labels, labelFetchRunning, fetchGen, runs,
                   uiQueue, events>>
    /\ UNCHANGED <<adbVars, batchVars, panelVars>>

\* the device answers with its long list, with a short one, or fails
RepeatPackageLoadResults ==
    LongPackageLoadResults \cup {[plist |-> <<PkgAndroid, PkgCD>>, err |-> Nil]}

RepeatPackagesLoaded == packagesLoaded(RepeatPackageLoadResults)

RepeatNext ==
    \/ RefreshAgain
    \/ RepeatPackagesLoaded
    \/ UsersLoaded
    \/ UIRun
    \/ RunLoop
    \/ RunAppLabel
    \/ RunCheck
    \/ RunSleep

RepeatFairness ==
    /\ WF_vars(RefreshAgain)
    /\ WF_vars(RepeatPackagesLoaded)
    /\ WF_vars(UsersLoaded)
    /\ WF_vars(UIRun)
    /\ WF_vars(RunLoop)
    /\ WF_vars(RunAppLabel)
    /\ WF_vars(RunCheck)
    /\ WF_vars(RunSleep)

RepeatSpec == Init /\ [][RepeatNext]_vars /\ RepeatFairness

\* a run over the unchanged long list is at its maxCount-th extraction
AtCutOff ==
    \E k \in 1..Len(runs) :
        /\ runs[k].listSnapshot = LongList
        /\ runs[k].pc = "check"
        /\ runs[k].count = maxCount - 1

\* a label extraction for entry p is being performed
Extracting(p) ==
    \E k \in 1..Len(runs) :
        /\ runs[k].pc \in {"AppLabel", "check"}
        /\ runs[k].listSnapshot[runs[k].i] = p

\* the indices of the package-like entries of the long list
PackageLike == {m \in 1..Len(LongList) : Contains(LongList[m], <<".">>)}

\* the package-like entries after the first maxCount of them
BeyondCutOff ==
    {LongList[m] : m \in {n \in PackageLike :
                             Cardinality({j \in PackageLike : j < n}) >= maxCount}}

\* C21: when the unchanged long list is refreshed again and again, with runs
\* reaching the cut-off every time, a label extraction is eventually
\* performed for every package-like entry of the list; stated for the
\* entries beyond the first maxCount, which one run leaves unprocessed.
C21_RemainderPickedUp ==
    ([]<>AtCutOff) => \A p \in BeyondCutOff : <>Extracting(p)

\* C26: every run eventually ends, whichever way it leaves its loop, and
\* with it the scheduler is Idle again (every extraction call returns: the
\* goroutine of the run keeps being scheduled); a start request on the Idle
\* scheduler starts a run.
C26_RunEndsIdle ==
    /\ (runs # <<>>) ~> (runs = <<>> /\ ~labelFetchRunning)
    /\ [](runs = <<>> => ~labelFetchRunning)
    /\ [][(StartRequest /\ ~labelFetchRunning)
             => (Len(runs') = 1 /\ labelFetchRunning')]_vars

\* the first run started after a refresh has ended, and the second start
\* request of that refresh was accepted: its run is Running
C26_Witness ==
    /\ Len(runs) = 1
    /\ runs[1].req = 2
    /\ labelFetchRunning

(***************************************************************************)
(* Label enrichment scheduler: what a run extracts and publishes.          *)
(***************************************************************************)
NullSentinel == <<"n","u","l","l">>

\* label nm may be published for entry p
Publishable(p, nm) ==
    /\ Contains(p, <<".">>)
    /\ nm # <<>>
    /\ TrimSpace(nm) = nm
    /\ ToLower(nm) # NullSentinel
    /\ nm # p

\* C24: a run publishes a label for an entry only if the entry contains the
\* separator "." and the trimmed label is non-empty, is not "null" in any
\* letter case and differs from the entry; for an entry without the separator
\* no extraction call is made.
C24_PublishOnlyUsable ==
    /\ \A j \in 1..Len(uiQueue) :
          uiQueue[j].kind = "label" => Publishable(uiQueue[j].p, uiQueue[j].nm)
    /\ \A p \in DOMAIN labels : Publishable(p, labels[p])
    /\ \A k \in 1..Len(runs) :
          runs[k].pc \in {"AppLabel", "check"}
             => Contains(runs[k].listSnapshot[runs[k].i], <<".">>)

\* a run has passed the entry "android" without an extraction, and the label
\* of the next entry is on its way to the tab
C24_Witness ==
    \E k \in 1..Len(runs) :
        /\ runs[k].listSnapshot = <<PkgAndroid, PkgCD>>
        /\ runs[k].i = 2
        /\ runs[k].pc = "Sleep"
        /\ runs[k].count = 1
        /\ \E j \in 1..Len(uiQueue) :
              /\ uiQueue[j].kind = "label"
              /\ uiQueue[j].p = PkgCD
              /\ uiQueue[j].nm = <<"M","y"," ","A","p","p">>

(***************************************************************************)
(* The Applications tab with goroutines and UI thread that keep running;   *)
(* the user may stop tapping at any time.                                  *)
(***************************************************************************)
Fairness ==
    /\ WF_vars(PackagesLoaded)
    /\ WF_vars(UsersLoaded)
    /\ WF_vars(UIRun)
    /\ WF_vars(RunLoop)
    /\ WF_vars(RunAppLabel)
    /\ WF_vars(RunCheck)
    /\ WF_vars(RunSleep)

FairSpec == Spec /\ Fairness

\* the entries of the package list held by the tab
Listed == {pkgs[n] : n \in 1..Len(pkgs)}

\* a run iterates a snapshot of list
Iterating(list) == \E k \in 1..Len(runs) : runs[k].listSnapshot = list

\* C27: every successfully refreshed package list is eventually iterated by a
\* run, also when a run for an earlier list was Running when the refresh
\* completed (stated for the list "android", "c.d"); and no label extracted
\* for an earlier list is published into the labels of the refreshed list
\* (every labelled entry is an entry of the list held).
C27_RefreshedListEnriched ==
    /\ [](DOMAIN labels \subseteq Listed)
    /\ (pkgs = <<PkgAndroid, PkgCD>>) ~> Iterating(<<PkgAndroid, PkgCD>>)

(***************************************************************************)
(* BuildUI: the devices panel with its manual and periodic refresh, and    *)
(* the settings dialog (ui.go 131-196, 221-283, 1580-1672).                *)
(***************************************************************************)
Dev(serial, state) ==
    [Serial |-> serial, State |-> state, Product |-> <<>>, Model |-> <<>>,
     Device |-> <<>>, TransportID |-> <<>>]

DeviceWord == <<"d","e","v","i","c","e">>

\* what mgr.Devices returns to the n-th refresh started: devices come and go,
\* and the server does not answer the third
DevicesAnswer(n) ==
    CASE n = 1 -> [devs |-> <<Dev(<<"A">>, DeviceWord)>>, err |-> Nil]
      [] n = 2 -> [devs |-> <<Dev(<<"A">>, DeviceWord), Dev(<<"B">>, DeviceWord)>>,
                   err |-> Nil]
      [] n = 3 -> [devs |-> <<>>, err |-> Error(ExitStatus1, 2)]
      [] OTHER -> [devs |-> <<Dev(<<"B">>, DeviceWord)>>, err |-> Nil]

\* refresh of buildDevicesPanel, the part run by the caller: spawn the goroutine
\* of the n-th refresh
refreshDevices(l, n) ==
    l (+) SetToBag({[kind |-> "devices", n |-> n, pc |-> "start", bins |-> <<>>]})

\* refreshBtn.OnTapped of the devices panel
DevicesRefreshTapped ==
    /\ events < MaxPanelEvents
    /\ events' = events + 1
    /\ started' = started + 1
    /\ loads' = refreshDevices(loads, started + 1)
    /\ UNCHANGED <<selectedSerial, pkgs, labels, labelFetchRunning, fetchGen, runs,
                   uiQueue, requests>>
    /\ UNCHANGED <<adbVars, batchVars, devices, mgrPath, cfg, appType>>

\* the ticker of BuildUI fires: refreshDevices()
Tick ==
    /\ events < MaxPanelEvents
    /\ events' = events + 1
    /\ started' = started + 1
    /\ loads' = refreshDevices(loads, started + 1)
    /\ UNCHANGED <<selectedSerial, pkgs, labels, labelFetchRunning, fetchGen, runs,
                   uiQueue, requests>>
    /\ UNCHANGED <<adbVars, batchVars, devices, mgrPath, cfg, appType>>

\* mgr.Devices in the goroutine: EnsureServer launches the binary at mgr.Path
DevicesEnsure ==
    \E g \in BagToSet(loads) :
        /\ g.kind = "devices"
        /\ g.pc = "start"
        /\ loads' = (loads (-) SetToBag({g}))
                       (+) SetToBag({[g EXCEPT !.pc = "list", !.bins = <<mgrPath>>]})
        /\ UNCHANGED <<selectedSerial, pkgs, labels, labelFetchRunning, fetchGen, runs,
                       uiQueue, events, requests>>
        /\ UNCHANGED <<adbVars, batchVars, panelVars>>

\* mgr.Devices in the goroutine: "devices -l" launches the binary at mgr.Path
\* and the call returns; the closure is handed to fyne.Do
DevicesLoaded ==
    \E g \in BagToSet(loads) :
        /\ g.kind = "devices"
        /\ g.pc = "list"
        /\ loads' = loads (-) SetToBag({g})
        /\ uiQueue' = Append(uiQueue, [kind |-> "devices", n |-> g.n,
                                       devs |-> DevicesAnswer(g.n).devs,
                                       err |-> DevicesAnswer(g.n).err,
                                       bins |-> Append(g.bins, mgrPath)])
        /\ UNCHANGED <<selectedSerial, pkgs, labels, labelFetchRunning, fetchGen, runs,
                       events, requests>>
        /\ UNCHANGED <<adbVars, batchVars, panelVars>>

\* the files that exist, and the one exec.LookPath finds when PATH holds adb
AdbOnPath == <<"/","b","/","a","d","b">>
AdbFiles == {DetectedPath, AdbOnPath, <<"/","n","/","a","d","b">>}

NotFoundAtPath ==
    <<"a","d","b"," ","n","o","t"," ","f","o","u","n","d"," ","a","t"," ","p","a","t","h">>

\* adb.ValidatePath; onPath: exec.LookPath finds the base name
ValidatePath(p, onPath) ==
    IF p = <<>>
    THEN [path |-> <<>>, err |-> Error(<<"e","m","p","t","y"," ","p","a","t","h">>, 0)]
    ELSE IF p \notin AdbFiles
    THEN IF Base(p) \in {<<"a","d","b">>, <<"a","d","b",".","e","x","e">>} /\ onPath
         THEN [path |-> AdbOnPath, err |-> Nil]
         ELSE [path |-> <<>>, err |-> Error(NotFoundAtPath, 0)]
    ELSE [path |-> p, err |-> Nil]

ConfigDir == <<"c","f","g","/","a","d","b","-","g","u","i">>
ConfigFile == Join(ConfigDir, <<"c","o","n","f","i","g",".","j","s","o","n">>)

\* json.MarshalIndent(cfg): the values of the document, in the order of the fields
Marshal(c) == <<c.ADBPath, c.ThemeMode>>

NoConfigDir == <<"n","o"," ","c","o","n","f","i","g"," ","d","i","r">>

\* config.Save on storage d: the outcomes; okHome: os.UserConfigDir answers
Save(c, d, okHome, okDir, okWrite) ==
    LET mk == MkdirAll(d, ConfigDir, okDir)
    IN  IF ~okHome THEN {[disk |-> d, err |-> Error(NoConfigDir, 0)]}
        ELSE IF ~mk.err.isNil THEN {mk}
        ELSE WriteFile(mk.disk, ConfigFile, Marshal(c), okWrite)

\* what the user has typed into pathEntry
PathTexts ==
    { <<>>, <<" ","/","n","/","a","d","b"," ">>, <<"/","x","/","a","d","b","2">>,
      <<"a","d","b">> }

\* saveBtn of the settings dialog
SaveTapped ==
    \E text \in PathTexts, mode \in {"system", "dark"},
       onPath, okHome, okDir, okWrite \in BOOLEAN :
        LET p == TrimSpace(text)
            v == ValidatePath(p, onPath)
            c == [ADBPath |-> v.path, ThemeMode |-> mode]
        IN
        /\ events < MaxPanelEvents
        /\ events' = events + 1
        /\ IF ~v.err.isNil
           THEN /\ dialogs' = Append(dialogs, [title |-> "Error", message |-> v.err.msg])
                /\ UNCHANGED <<cfg, mgrPath, disk>>
           ELSE /\ cfg' = c
                /\ \E saved \in Save(c, disk, okHome, okDir, okWrite) :
                      /\ disk' = saved.disk
                      /\ IF ~saved.err.isNil
                         THEN /\ dialogs' = Append(dialogs, [title |-> "Error",
                                                             message |-> saved.err.msg])
                              /\ UNCHANGED mgrPath
                         ELSE /\ mgrPath' = v.path
                              /\ dialogs' = Append(dialogs,
                                               [title |-> "Saved",
                                                message |-> <<"s","a","v","e","d">>])
        /\ UNCHANGED <<selectedSerial, pkgs, labels, labelFetchRunning, fetchGen, loads,
                       runs, uiQueue, requests>>
        /\ UNCHANGED <<env, op, calls, ret, selectedPkgs, batches, devices, started,
                       appType>>

\* the window as BuildUI leaves it: no device selected, the first
\* refreshDevices() called
PanelInit ==
    /\ selectedSerial = <<>>
    /\ pkgs = <<InitialTip>>
    /\ labels = <<>>
    /\ labelFetchRunning = FALSE
    /\ fetchGen = 0
    /\ loads = refreshDevices(EmptyBag, 1)
    /\ runs = <<>>
    /\ uiQueue = <<>>
    /\ events = 0
    /\ requests = 0
    /\ selectedPkgs = {}
    /\ batches = <<>>
    /\ dialogs = <<>>
    /\ appType = T("en", "user_apps")
    /\ devices = <<>>
    /\ started = 1
    /\ mgrPath = DetectedPath
    /\ cfg = [ADBPath |-> DetectedPath, ThemeMode |-> "system"]
    /\ AdbIdle

PanelNext ==
    \/ DevicesRefreshTapped
    \/ Tick
    \/ DevicesEnsure
    \/ DevicesLoaded
    \/ UIRun
    \/ SaveTapped

PanelSpec == PanelInit /\ [][PanelNext]_vars

\* the device refreshes whose call of mgr.Devices has begun and not returned
InFlight == {g \in BagToSet(loads) : g.kind = "devices" /\ g.pc = "list"}

\* C22: mgr.Path is never written while a core operation is in flight: every
\* write by the settings save happens between the operations, however the
\* save interleaves with the periodic and manual device refreshes.
C22_PathWrittenBetweenOperations ==
    [][mgrPath' # mgrPath => InFlight = {}]_vars

\* every device refresh started has completed: no goroutine and no closure left
DevicesSettled ==
    /\ \A g \in BagToSet(loads) : g.kind # "devices"
    /\ \A j \in 1..Len(uiQueue) : uiQueue[j].kind # "devices"

\* C28: when overlapping device refreshes have all completed, the list held
\* is the result of the refresh started last (if that one returned a list): a
\* result of an earlier refresh does not replace it.
C28_LatestRefreshWins ==
    (DevicesSettled /\ DevicesAnswer(started).err.isNil)
        => devices = DevicesAnswer(started).devs

\* this step is a settings save that ended with an error dialog
SaveFailed ==
    /\ events' = events + 1
    /\ Len(dialogs') = Len(dialogs) + 1
    /\ dialogs'[Len(dialogs')].title = "Error"

\* C30: a settings save that fails in validation or in persisting leaves
\* mgr.Path and cfg.ADBPath as they were; mgr.Path changes only after the
\* path was validated and the configuration written.
C30_FailedSaveChangesNothing ==
    [][ /\ SaveFailed => (mgrPath' = mgrPath /\ cfg'.ADBPath = cfg.ADBPath)
        /\ mgrPath' # mgrPath
              => /\ mgrPath' \in AdbFiles
                 /\ ConfigFile \in DOMAIN disk'.files
                 /\ disk'.files[ConfigFile][1] = mgrPath' ]_vars

(***************************************************************************)
(* The Applications tab when the app type changes while package lists are  *)
(* being fetched (ui.go 304-307, 587-613, 689-700).                        *)
(***************************************************************************)
\* appTypeSelect.OnChanged after the user picked the other option
AppTypeChanged ==
    /\ events < MaxTypeEvents
    /\ events' = events + 1
    /\ appType' = T(appType.lang, IF appType.key = "user_apps" THEN "system_apps"
                                                                ELSE "user_apps")
    /\ loads' = refreshPackages(loads)
    /\ UNCHANGED <<selectedSerial, pkgs, labels, labelFetchRunning, fetchGen, runs,
                   uiQueue, requests>>
    /\ UNCHANGED <<adbVars, batchVars, devices, started, mgrPath, cfg>>

\* refreshBtn.OnTapped of the Applications tab
TypeRefreshTapped == refreshTapped(MaxTypeEvents)

\* the goroutine of refreshPackages maps the selection to the type it asks for
ReadType ==
    \E g \in BagToSet(loads) :
        /\ g.kind = "packages"
        /\ g.pc = "spawned"
        /\ loads' = (loads (-) SetToBag({g}))
                       (+) SetToBag({[kind |-> "packages", serial |-> g.serial,
                                      pc |-> "call",
                                      typ |-> IF appType = T("zh", "system_apps")
                                              THEN "system" ELSE "user"]})
        /\ UNCHANGED <<selectedSerial, pkgs, labels, labelFetchRunning, fetchGen, runs,
                       uiQueue, events, requests>>
        /\ UNCHANGED <<adbVars, batchVars, panelVars>>

\* the packages of each type on the device
InstalledOfType(typ) ==
    IF typ = "system" THEN <<PkgAndroid, PkgCD>> ELSE <<PkgAB, PkgCD>>

\* mgr.InstalledPackagesForUserTyped returns in the goroutine, the closure is
\* handed to fyne.Do
TypedPackagesLoaded ==
    \E g \in BagToSet(loads) : \E fail \in BOOLEAN :
        /\ g.kind = "packages"
        /\ g.pc = "call"
        /\ loads' = loads (-) SetToBag({g})
        /\ uiQueue' = Append(uiQueue,
                         [kind |-> "packages",
                          plist |-> IF fail THEN <<>> ELSE InstalledOfType(g.typ),
                          err |-> IF fail THEN Error(ExitStatus1, 1) ELSE Nil])
        /\ UNCHANGED <<selectedSerial, pkgs, labels, labelFetchRunning, fetchGen, runs,
                       events, requests>>
        /\ UNCHANGED <<adbVars, batchVars, panelVars>>

TypeInit ==
    /\ selectedSerial = Serial1
    /\ pkgs = <<InitialTip>>
    /\ labels = <<>>
    /\ labelFetchRunning = FALSE
    /\ fetchGen = 0
    /\ loads = EmptyBag
    /\ runs = <<>>
    /\ uiQueue = <<>>
    /\ events = 0
    /\ requests = 0
    /\ selectedPkgs = {}
    /\ batches = <<>>
    /\ dialogs = <<>>
    /\ appType \in {T(lang, "user_apps") : lang \in {"zh", "en"}}
    /\ PanelIdle
    /\ AdbIdle

TypeNext ==
    \/ AppTypeChanged
    \/ TypeRefreshTapped
    \/ ReadType
    \/ TypedPackagesLoaded
    \/ UsersLoaded
    \/ UIRun
    \/ RunLoop
    \/ RunAppLabel
    \/ RunCheck
    \/ RunSleep

TypeSpec == TypeInit /\ [][TypeNext]_vars

\* every package refresh issued has completed: no goroutine and no closure left
PackagesSettled ==
    /\ \A g \in BagToSet(loads) : g.kind \notin {"packages", "users"}
    /\ \A j \in 1..Len(uiQueue) : uiQueue[j].kind \notin {"packages", "users"}

\* pkgs is a list some refresh returned
HoldsAList == pkgs \in {InstalledOfType(typ) : typ \in {"user", "system"}}

\* C29: when overlapping package refreshes have all completed, the list held
\* is the answer to the request issued last: it was fetched for the type
\* that is now selected.
C29_ListIsForSelection ==
    (PackagesSettled /\ HoldsAList)
        => pkgs = InstalledOfType(IF appType.key = "system_apps" THEN "system"
                                                                 ELSE "user")

====
